---------------------------- MODULE Spec2Model ----------------------------
(***************************************************************************)
(* Model of the recommendation engine of personal-ebook-manager            *)
(* (backend/src/services/recommendations.service.ts) together with the     *)
(* part of GoogleBooksService it calls, of the status automaton of         *)
(* BooksService.update, and of ShelvesService.addBook and removeBook.      *)
(*                                                                         *)
(* Representation choices:                                                 *)
(*  - a JavaScript string is a sequence of one-character strings, so that  *)
(*    toLowerCase, trim, template concatenation, startsWith and split are  *)
(*    computed character by character;                                     *)
(*  - a nullable / optional field is a sequence of length 0 (null or       *)
(*    undefined) or 1 (the value);                                         *)
(*  - ratings are whole stars; a profile weight is kept in tenths          *)
(*    (rating/5 = 2*rating tenths), so all weights are exact integers;     *)
(*  - a score dot/|profile| is kept as the pair (num, sq) standing for     *)
(*    num / sqrt(sq); comparisons are made by cross-multiplication.        *)
(***************************************************************************)
EXTENDS Integers, Sequences, FiniteSets, TLC

VARIABLES
    catalog,      \* rows of the books table (what booksRepo.find() returns)
    pc,           \* position of the getRecommendations() invocation
    allBooks,     \* snapshot read by the invocation
    profile,      \* Map<string, number> in insertion order: Seq of [k, w]
    localScored,  \* scored local candidates (sorted, truncated)
    pending,      \* genres of topGenres not queried yet
    suggestions,  \* external suggestions pushed so far
    queries,      \* log of the calls made to GoogleBooksService.searchByGenre
    thrown,       \* the exception that left getRecommendations(), if any
    result,       \* the list returned by getRecommendations()
    second,       \* the locals of a second, concurrent invocation (a record)
    library,      \* per book id, the columns BooksService.update and
                  \* ShelvesService read and write
    found,        \* the row findOne(id) returned to the last call of update
    request,      \* the last call of BooksService.update / updateProgress
    shelfCall,    \* the last call of ShelvesService.addBook / removeBook
    shelfCallBefore  \* the call of ShelvesService made before that one

vars == <<catalog, pc, allBooks, profile, localScored, pending, suggestions,
          queries, thrown, result, second,
          library, found, request, shelfCall, shelfCallBefore>>

\* the state of the books and shelves services
libraryVars == <<library, found, request, shelfCall, shelfCallBefore>>

----------------------------------------------------------------------------
(* Optional values *)

None == <<>>

Some(x) == <<x>>

IsNone(o) == o = None

Get(o) == o[1]

\* JavaScript's `o ?? d`
OrElse(o, d) == IF IsNone(o) THEN d ELSE Get(o)

----------------------------------------------------------------------------
(* Strings *)

UpperCase == <<"A", "B", "D", "E", "F", "H", "O", "S", "U", "X">>

LowerCase == <<"a", "b", "d", "e", "f", "h", "o", "s", "u", "x">>

LowerChar(c) ==
    IF \E i \in 1..Len(UpperCase) : UpperCase[i] = c
    THEN LowerCase[CHOOSE i \in 1..Len(UpperCase) : UpperCase[i] = c]
    ELSE c

\* String.prototype.toLowerCase
RECURSIVE ToLowerCase(_)
ToLowerCase(s) ==
    IF s = <<>> THEN <<>> ELSE <<LowerChar(Head(s))>> \o ToLowerCase(Tail(s))

RECURSIVE TrimStart(_)
TrimStart(s) ==
    IF s = <<>> THEN <<>>
    ELSE IF Head(s) = " " THEN TrimStart(Tail(s)) ELSE s

RECURSIVE TrimEnd(_)
TrimEnd(s) ==
    IF s = <<>> THEN <<>>
    ELSE IF s[Len(s)] = " " THEN TrimEnd(SubSeq(s, 1, Len(s) - 1)) ELSE s

\* String.prototype.trim
Trim(s) == TrimEnd(TrimStart(s))

\* String.prototype.startsWith
StartsWith(s, p) == Len(s) >= Len(p) /\ SubSeq(s, 1, Len(p)) = p

GenrePrefix == <<"g", "e", "n", "r", "e", ":">>

TagPrefix == <<"t", "a", "g", ":">>

AuthorPrefix == <<"a", "u", "t", "h", "o", "r", ":">>

FormatPrefix == <<"f", "o", "r", "m", "a", "t", ":">>

RECURSIVE BeforeColon(_)
BeforeColon(s) ==
    IF s = <<>> THEN <<>>
    ELSE IF Head(s) = ":" THEN <<>> ELSE <<Head(s)>> \o BeforeColon(Tail(s))

\* variant of AfterFirstColon: f.split(':')[1], the second segment only
RECURSIVE SecondSegment(_)
SecondSegment(s) ==
    IF s = <<>> THEN <<>>
    ELSE IF Head(s) = ":" THEN BeforeColon(Tail(s)) ELSE SecondSegment(Tail(s))

\* f.split(':').slice(1).join(':') : everything after the first ':'
RECURSIVE AfterFirstColon(_)
AfterFirstColon(s) ==
    IF s = <<>> THEN <<>>
    ELSE IF Head(s) = ":" THEN Tail(s) ELSE AfterFirstColon(Tail(s))

----------------------------------------------------------------------------
(* Enumerations of the Book entity *)

UNREAD == "unread"

IN_PROGRESS == "in_progress"

FINISHED == "finished"

ABANDONED == "abandoned"

FORMAT_EPUB == <<"e", "p", "u", "b">>

FORMAT_MP3 == <<"m", "p", "3">>

FORMAT_OTHER == <<"o", "t", "h", "e", "r">>

----------------------------------------------------------------------------
(* Program constants *)

\* AUTHOR_BOOST = 1.5, as the fraction AuthorBoostNum / BoostDen
AuthorBoostNum == 3

\* the format factor 0.5, as the fraction FormatFactorNum / BoostDen
FormatFactorNum == 1

BoostDen == 2

\* rating / 5 expressed in tenths: rating * TenthsPerStar
TenthsPerStar == 2

\* the defensive default of `book.rating ?? 3`
DefaultRating == 3

MIN_LOCAL_CANDIDATES == 3

MIN_RATING == 3

TOP_N == 12

\* .slice(0, 3) of the profile's genre keys
TopGenreCount == 3

\* .slice(0, 6) of the external suggestions
MaxExternal == 6

----------------------------------------------------------------------------
(* The profile: a Map<string, number>, kept in insertion order *)

\* profile.has(key)
ProfileHas(p, key) == \E i \in 1..Len(p) : p[i].k = key

\* profile.get(key) ?? 0
ProfileGet(p, key) ==
    IF ProfileHas(p, key)
    THEN p[CHOOSE i \in 1..Len(p) : p[i].k = key].w
    ELSE 0

\* variant of Add: profile.set(key, weight), the weight replaces the old one
AddReplacing(p, key, weight) ==
    IF ProfileHas(p, key)
    THEN [i \in 1..Len(p) |->
             IF p[i].k = key THEN [k |-> key, w |-> weight] ELSE p[i]]
    ELSE Append(p, [k |-> key, w |-> weight])

\* the closure `add` of buildProfile: profile.set(key, (profile.get(key) ?? 0) + weight)
\* Map.set on an existing key keeps the key's position.
Add(p, key, weight) ==
    IF ProfileHas(p, key)
    THEN [i \in 1..Len(p) |->
             IF p[i].k = key THEN [k |-> key, w |-> p[i].w + weight] ELSE p[i]]
    ELSE Append(p, [k |-> key, w |-> weight])

\* `genre:${g.toLowerCase().trim()}`
GenreKey(g) == GenrePrefix \o Trim(ToLowerCase(g))

\* variant of TagKey: the tag is filed under the prefix of the genres
TagKeyAsGenre(t) == GenrePrefix \o Trim(ToLowerCase(t))

\* `tag:${t.toLowerCase().trim()}`
TagKey(t) == TagPrefix \o Trim(ToLowerCase(t))

\* `author:${author.toLowerCase().trim()}`
AuthorKey(a) == AuthorPrefix \o Trim(ToLowerCase(a))

\* `format:${format}`
FormatKey(f) == FormatPrefix \o f

\* for (const g of book.genres ?? []) add(`genre:...`, w)
RECURSIVE AddGenres(_, _, _)
AddGenres(p, gs, w) ==
    IF gs = <<>> THEN p
    ELSE AddGenres(Add(p, GenreKey(Head(gs)), w), Tail(gs), w)

\* for (const t of book.tags ?? []) add(`tag:...`, w)
RECURSIVE AddTags(_, _, _)
AddTags(p, ts, w) ==
    IF ts = <<>> THEN p
    ELSE AddTags(Add(p, TagKey(Head(ts)), w), Tail(ts), w)

\* variant of AddFavorite: the author's weight is w, without AUTHOR_BOOST
AddFavoriteNoBoost(p, book) ==
    LET w  == OrElse(book.rating, DefaultRating) * TenthsPerStar
        p1 == AddGenres(p, OrElse(book.genres, <<>>), w)
        p2 == AddTags(p1, OrElse(book.tags, <<>>), w)
        p3 == Add(p2, AuthorKey(Get(book.author)), w)
    IN  Add(p3, FormatKey(Get(book.format)), (w * FormatFactorNum) \div BoostDen)

\* one iteration of the loop over favorites in buildProfile
AddFavorite(p, book) ==
    LET w  == OrElse(book.rating, DefaultRating) * TenthsPerStar
        p1 == AddGenres(p, OrElse(book.genres, <<>>), w)
        p2 == AddTags(p1, OrElse(book.tags, <<>>), w)
        p3 == Add(p2, AuthorKey(Get(book.author)), (w * AuthorBoostNum) \div BoostDen)
    IN  Add(p3, FormatKey(Get(book.format)), (w * FormatFactorNum) \div BoostDen)

RECURSIVE BuildProfileFrom(_, _)
BuildProfileFrom(p, favorites) ==
    IF favorites = <<>> THEN p
    ELSE BuildProfileFrom(AddFavorite(p, Head(favorites)), Tail(favorites))

\* RecommendationsService.buildProfile
BuildProfile(favorites) == BuildProfileFrom(<<>>, favorites)

----------------------------------------------------------------------------
(* Scores *)

\* [...profile.values()].reduce((s, w) => s + w * w, 0)
RECURSIVE SumSquares(_)
SumSquares(p) ==
    IF p = <<>> THEN 0 ELSE Head(p).w * Head(p).w + SumSquares(Tail(p))

\* variant of MkScore: divides by the sum of squares, the square root forgotten
MkScoreNoSqrt(dot, sq) ==
    IF sq > 0 THEN [num |-> dot, sq |-> sq * sq] ELSE [num |-> 0, sq |-> 1]

\* variant of MkScore: the dot product is divided by the magnitude unguarded
MkScoreUnguarded(dot, sq) == [num |-> dot, sq |-> sq]

\* magnitude > 0 ? dot / magnitude : 0, as num / sqrt(sq)
MkScore(dot, sq) ==
    IF sq > 0 THEN [num |-> dot, sq |-> sq] ELSE [num |-> 0, sq |-> 1]

\* s.score > 0
ScorePositive(s) == s.num > 0

\* a.score > b.score  (numerators are never negative)
ScoreGreater(a, b) == a.num * a.num * b.sq > b.num * b.num * a.sq

\* a.score = b.score
ScoreEqual(a, b) == a.num * a.num * b.sq = b.num * b.num * a.sq

\* a.score > 1
ScoreAboveOne(a) == a.num * a.num > a.sq

----------------------------------------------------------------------------
(* scoreBook *)

\* (book.genres ?? []).map(g => `genre:...`)
GenreKeys(gs) == IF gs = <<>> THEN <<>> ELSE [i \in 1..Len(gs) |-> GenreKey(gs[i])]

\* (book.tags ?? []).map(t => `tag:...`)
TagKeys(ts) == IF ts = <<>> THEN <<>> ELSE [i \in 1..Len(ts) |-> TagKey(ts[i])]

\* variant of Features: an item without a format is filed under format:epub
FeaturesDefaultEpub(book) ==
    GenreKeys(OrElse(book.genres, <<>>))
        \o TagKeys(OrElse(book.tags, <<>>))
        \o << AuthorKey(OrElse(book.author, <<>>)),
              FormatKey(OrElse(book.format, FORMAT_EPUB)) >>

\* the array `features` of scoreBook
Features(book) ==
    GenreKeys(OrElse(book.genres, <<>>))
        \o TagKeys(OrElse(book.tags, <<>>))
        \o << AuthorKey(OrElse(book.author, <<>>)),
              FormatKey(OrElse(book.format, FORMAT_OTHER)) >>

\* variant of Dot: a feature missing from the profile counts 1 (`?? 1`)
RECURSIVE DotDefaultOne(_, _)
DotDefaultOne(fs, p) ==
    IF fs = <<>> THEN 0
    ELSE (IF ProfileHas(p, Head(fs)) THEN ProfileGet(p, Head(fs)) ELSE 1)
             + DotDefaultOne(Tail(fs), p)

\* the loop of scoreBook: the running dot product
RECURSIVE Dot(_, _)
Dot(fs, p) ==
    IF fs = <<>> THEN 0
    ELSE (IF ProfileGet(p, Head(fs)) > 0 THEN ProfileGet(p, Head(fs)) ELSE 0)
             + Dot(Tail(fs), p)

\* the loop of scoreBook: the array `matched`
RECURSIVE Matched(_, _)
Matched(fs, p) ==
    IF fs = <<>> THEN <<>>
    ELSE (IF ProfileGet(p, Head(fs)) > 0 THEN <<AfterFirstColon(Head(fs))>> ELSE <<>>)
             \o Matched(Tail(fs), p)

\* [...new Set(xs)]: the first occurrence of every element, in order
RECURSIVE Distinct(_)
Distinct(xs) ==
    IF xs = <<>> THEN <<>>
    ELSE LET init == SubSeq(xs, 1, Len(xs) - 1)
             last == xs[Len(xs)]
         IN  IF \E i \in 1..Len(init) : init[i] = last
             THEN Distinct(init)
             ELSE Append(Distinct(init), last)

\* RecommendationsService.scoreBook, with the isExternal flag its callers add
ScoreBook(book, p, ext) ==
    [ book            |-> book,
      score           |-> MkScore(Dot(Features(book), p), SumSquares(p)),
      matchedFeatures |-> Distinct(Matched(Features(book), p)),
      isExternal      |-> ext ]

----------------------------------------------------------------------------
(* Array helpers *)

\* Array.prototype.slice(0, n)
Slice(xs, n) == IF Len(xs) <= n THEN xs ELSE SubSeq(xs, 1, n)

\* insertion of x into a list sorted by score descending, after every element
\* whose score is not smaller (stable)
RECURSIVE InsertByScore(_, _)
InsertByScore(sorted, x) ==
    IF sorted = <<>> THEN <<x>>
    ELSE IF ScoreGreater(x.score, Head(sorted).score)
         THEN <<x>> \o sorted
         ELSE <<Head(sorted)>> \o InsertByScore(Tail(sorted), x)

\* variant of SortByScore: the list is left in its order
LeftUnsorted(xs) == xs

\* Array.prototype.sort((a, b) => b.score - a.score): stable, descending
RECURSIVE SortByScore(_)
SortByScore(xs) ==
    IF xs = <<>> THEN <<>>
    ELSE InsertByScore(SortByScore(SubSeq(xs, 1, Len(xs) - 1)), xs[Len(xs)])

\* variant of FilterPositive: nothing is filtered out
FilterNothing(xs) == xs

RECURSIVE FilterPositive(_)
FilterPositive(xs) ==
    IF xs = <<>> THEN <<>>
    ELSE (IF ScorePositive(Head(xs).score) THEN <<Head(xs)>> ELSE <<>>)
             \o FilterPositive(Tail(xs))

----------------------------------------------------------------------------
(* GoogleBooksService *)

\* Array.prototype.join(sep)
RECURSIVE Join(_, _)
Join(xs, sep) ==
    IF xs = <<>> THEN <<>>
    ELSE IF Len(xs) = 1 THEN Head(xs)
    ELSE Head(xs) \o sep \o Join(Tail(xs), sep)

\* info.industryIdentifiers?.find((i) => i.type === type)?.identifier
FindIdentifier(ids, type) ==
    IF IsNone(ids) \/ ~(\E i \in 1..Len(Get(ids)) : Get(ids)[i].type = type)
    THEN None
    ELSE LET first == CHOOSE i \in 1..Len(Get(ids)) :
                          /\ Get(ids)[i].type = type
                          /\ \A j \in 1..(i - 1) : Get(ids)[j].type # type
         IN  Some(Get(ids)[first].identifier)

\* GoogleBooksService.mapVolume: the fields the engine reads; a mapped volume
\* has no id, tags, format, rating or status
MapVolume(v) ==
    [ id     |-> None,
      title  |-> v.title,
      author |-> IF IsNone(v.authors) THEN None
                 ELSE Some(Join(Get(v.authors), <<",", " ">>)),
      isbn   |-> IF IsNone(FindIdentifier(v.identifiers, "ISBN_13"))
                 THEN FindIdentifier(v.identifiers, "ISBN_10")
                 ELSE FindIdentifier(v.identifiers, "ISBN_13"),
      genres |-> v.categories,
      tags   |-> None,
      format |-> None,
      rating |-> None,
      status |-> None ]

\* GoogleBooksService.searchByGenre: (data.items ?? []).map(mapVolume), and []
\* when the HTTP call raises (the catch of lines 131-136)
SearchByGenre(http) ==
    IF ~http.ok THEN <<>>
    ELSE LET items == OrElse(http.items, <<>>)
         IN  IF items = <<>> THEN <<>>
             ELSE [i \in 1..Len(items) |-> MapVolume(items[i])]

----------------------------------------------------------------------------
(* getRecommendations and fetchExternalSuggestions: the synchronous parts *)

\* variant of IsFavorite: the status is not looked at
IsFavoriteAnyStatus(b) == ~IsNone(b.rating) /\ Get(b.rating) >= MIN_RATING

\* variant of IsFavorite: a finished book without a rating counts as rated 3
IsFavoriteUnratedToo(b) ==
    /\ OrElse(b.rating, DefaultRating) >= MIN_RATING
    /\ b.status = Some(FINISHED)

\* the predicate of the `favorites` filter
IsFavorite(b) ==
    /\ ~IsNone(b.rating)
    /\ Get(b.rating) >= MIN_RATING
    /\ b.status = Some(FINISHED)

\* variant of IsCandidate: every book that is not abandoned
IsCandidateNotAbandoned(b) == b.status # Some(ABANDONED)

\* variant of IsCandidate: a finished book is a candidate too
IsCandidateOrFinished(b) ==
    b.status = Some(UNREAD) \/ b.status = Some(IN_PROGRESS) \/ b.status = Some(FINISHED)

\* the predicate of the `localCandidates` filter
IsCandidate(b) == b.status = Some(UNREAD) \/ b.status = Some(IN_PROGRESS)

Favorites(books) == SelectSeq(books, IsFavorite)

LocalCandidates(books) == SelectSeq(books, IsCandidate)

\* variant of LocalScored: the slice(0, TOP_N) left out
LocalScoredUntruncated(books, p) ==
    LET cands  == LocalCandidates(books)
        scored == IF cands = <<>> THEN <<>>
                  ELSE [i \in 1..Len(cands) |-> ScoreBook(cands[i], p, FALSE)]
    IN  SortByScore(FilterPositive(scored))

\* localCandidates.map(scoreBook).filter(score > 0).sort(desc).slice(0, TOP_N)
LocalScored(books, p) ==
    LET cands  == LocalCandidates(books)
        scored == IF cands = <<>> THEN <<>>
                  ELSE [i \in 1..Len(cands) |-> ScoreBook(cands[i], p, FALSE)]
    IN  Slice(SortByScore(FilterPositive(scored)), TOP_N)

RECURSIVE InsertByWeight(_, _)
InsertByWeight(sorted, e) ==
    IF sorted = <<>> THEN <<e>>
    ELSE IF e.w > Head(sorted).w
         THEN <<e>> \o sorted
         ELSE <<Head(sorted)>> \o InsertByWeight(Tail(sorted), e)

\* entries.sort((a, b) => b[1] - a[1]): stable, descending by weight
RECURSIVE SortByWeight(_)
SortByWeight(es) ==
    IF es = <<>> THEN <<>>
    ELSE InsertByWeight(SortByWeight(SubSeq(es, 1, Len(es) - 1)), es[Len(es)])

IsGenreEntry(e) == StartsWith(e.k, GenrePrefix)

\* k.replace('genre:', '') on a key that starts with 'genre:'
StripGenrePrefix(k) == SubSeq(k, Len(GenrePrefix) + 1, Len(k))

\* variant of TopGenres: the keys of every kind are taken
TopGenresAnyKind(p) ==
    LET top == Slice(SortByWeight(p), TopGenreCount)
    IN  IF top = <<>> THEN <<>>
        ELSE [i \in 1..Len(top) |-> StripGenrePrefix(top[i].k)]

\* variant of TopGenres: the sort by weight is left out
TopGenresUnsorted(p) ==
    LET top == Slice(SelectSeq(p, IsGenreEntry), TopGenreCount)
    IN  IF top = <<>> THEN <<>>
        ELSE [i \in 1..Len(top) |-> StripGenrePrefix(top[i].k)]

\* the array `topGenres` of fetchExternalSuggestions
TopGenres(p) ==
    LET top == Slice(SortByWeight(SelectSeq(p, IsGenreEntry)), TopGenreCount)
    IN  IF top = <<>> THEN <<>>
        ELSE [i \in 1..Len(top) |-> StripGenrePrefix(top[i].k)]

\* JavaScript truthiness of an optional string: neither null/undefined nor ''
Truthy(o) == ~IsNone(o) /\ Get(o) # <<>>

\* new Set(existingBooks.map((b) => b.isbn).filter(Boolean))
ExistingIsbns(books) ==
    { Get(books[i].isbn) : i \in { j \in 1..Len(books) : Truthy(books[j].isbn) } }

\* new Set(existingBooks.map((b) => b.title.toLowerCase()))
ExistingTitles(books) ==
    { ToLowerCase(Get(books[i].title)) : i \in 1..Len(books) }

\* the two `continue` tests of the loop over a query's result
AlreadyOwned(book, books) ==
    \/ Truthy(book.isbn) /\ Get(book.isbn) \in ExistingIsbns(books)
    \/ Truthy(book.title) /\ ToLowerCase(Get(book.title)) \in ExistingTitles(books)

\* the loop over `meta`: what one query pushes onto `suggestions`
RECURSIVE Pushed(_, _, _)
Pushed(meta, p, books) ==
    IF meta = <<>> THEN <<>>
    ELSE (IF ~AlreadyOwned(Head(meta), books)
             /\ ScorePositive(ScoreBook(Head(meta), p, TRUE).score)
          THEN <<ScoreBook(Head(meta), p, TRUE)>>
          ELSE <<>>)
             \o Pushed(Tail(meta), p, books)

\* (s.book.title ?? '').toLowerCase()
TitleKey(s) == ToLowerCase(OrElse(s.book.title, <<>>))

\* variant of DedupeByTitle: the last suggestion of every title key is kept
RECURSIVE DedupeKeepLast(_)
DedupeKeepLast(ss) ==
    IF ss = <<>> THEN <<>>
    ELSE IF \E i \in 2..Len(ss) : TitleKey(ss[i]) = TitleKey(Head(ss))
         THEN DedupeKeepLast(Tail(ss))
         ELSE <<Head(ss)>> \o DedupeKeepLast(Tail(ss))

\* the filter with the `seen` set: the first suggestion of every title key
RECURSIVE DedupeByTitle(_)
DedupeByTitle(ss) ==
    IF ss = <<>> THEN <<>>
    ELSE LET init == SubSeq(ss, 1, Len(ss) - 1)
             last == ss[Len(ss)]
         IN  IF \E i \in 1..Len(init) : TitleKey(init[i]) = TitleKey(last)
             THEN DedupeByTitle(init)
             ELSE Append(DedupeByTitle(init), last)

\* variant of ExternalBooks: cut to MaxExternal before the sort
ExternalBooksCutFirst(ss) == SortByScore(Slice(DedupeByTitle(ss), MaxExternal))

\* the return value of fetchExternalSuggestions once every genre was queried
ExternalBooks(ss) == Slice(SortByScore(DedupeByTitle(ss)), MaxExternal)

\* variant of Combined: the external items are concatenated first
CombinedExternalFirst(local, external) == Slice(SortByScore(external \o local), TOP_N)

\* [...localScored, ...externalBooks].sort(desc).slice(0, TOP_N)
Combined(local, external) == Slice(SortByScore(local \o external), TOP_N)

----------------------------------------------------------------------------
(* Bounds *)

\* longest catalog enumerated book by book
MaxCatalog == 3

\* the large catalogs hold TOP_N - 1 .. TOP_N + MaxExtra candidates
MaxExtra == 1

----------------------------------------------------------------------------
(* The rows the catalog is drawn from (without their ids) *)

Row(title, author, isbn, genres, tags, format, rating, status) ==
    [ id     |-> None,
      title  |-> Some(title),
      author |-> Some(author),
      isbn   |-> isbn,
      genres |-> genres,
      tags   |-> tags,
      format |-> Some(format),
      rating |-> rating,
      status |-> Some(status) ]

\* a favorite with two genres
BookDune ==
    Row(<<"D", "u">>, <<"A">>, Some(<<"1">>),
        Some(<< <<"f", "a">>, <<"s", "f">> >>), None, FORMAT_EPUB, Some(5), FINISHED)

\* a favorite without genres, with a tag, of format other
BookSaga ==
    Row(<<"S", "a", "g">>, <<"B">>, None,
        None, Some(<< <<"x">> >>), FORMAT_OTHER, Some(3), FINISHED)

\* an unread book sharing one genre (another spelling) and the format of BookDune
BookHobbit ==
    Row(<<"H", "o">>, <<"B">>, None,
        Some(<< <<"F", "a">> >>), None, FORMAT_EPUB, None, UNREAD)

\* a rated book in progress whose features are exactly those of BookDune
BookEmma ==
    Row(<<"E", "m">>, <<"a", " ">>, None,
        Some(<< <<"s", "f">>, <<" ", "F", "A">> >>), None, FORMAT_EPUB, Some(5), IN_PROGRESS)

\* an abandoned, well rated book with an empty title
BookUntitled ==
    Row(<<>>, <<"H">>, Some(<<"2">>),
        Some(<< <<"s", "f">> >>), None, FORMAT_EPUB, Some(4), ABANDONED)

\* a finished book rated below MIN_RATING
BookBad ==
    Row(<<"B", "a", "d">>, <<"A">>, None,
        Some(<< <<"f", "a">> >>), Some(<< <<"x">> >>), FORMAT_MP3, Some(2), FINISHED)

\* an unread book sharing only a tag with BookSaga
BookHorror ==
    Row(<<"U", "h">>, <<"H">>, None,
        Some(<< <<"h">> >>), Some(<< <<" ", "X">> >>), FORMAT_MP3, None, UNREAD)

BookPool ==
    { BookDune, BookSaga, BookHobbit, BookEmma, BookUntitled, BookBad, BookHorror }

\* the isbn column is unique
UniqueIsbns(rows) ==
    \A i, j \in 1..Len(rows) :
        (i # j /\ ~IsNone(rows[i].isbn)) => rows[i].isbn # rows[j].isbn

\* the primary key: the row's position
WithIds(rows) ==
    IF rows = <<>> THEN <<>>
    ELSE [i \in 1..Len(rows) |-> [rows[i] EXCEPT !.id = Some(i)]]

SmallCatalogs ==
    { rows \in UNION { [1..n -> BookPool] : n \in 0..MaxCatalog } : UniqueIsbns(rows) }

\* one favorite followed by n candidates
LargeCatalog(n) ==
    <<BookDune>> \o [i \in 1..n |-> IF i % 2 = 1 THEN BookHobbit ELSE BookEmma]

LargeCatalogs == { LargeCatalog(n) : n \in (TOP_N - 1)..(TOP_N + MaxExtra) }

Catalogs == { WithIds(rows) : rows \in SmallCatalogs \cup LargeCatalogs }

----------------------------------------------------------------------------
(* The answers of the Google Books API *)

Volume(title, authors, categories, identifiers) ==
    [ title |-> title, authors |-> authors, categories |-> categories,
      identifiers |-> identifiers ]

Isbn13(x) == [type |-> "ISBN_13", identifier |-> x]

Isbn10(x) == [type |-> "ISBN_10", identifier |-> x]

\* the title of BookHobbit in capitals
VolHobbit ==
    Volume(Some(<<"H", "O">>), Some(<< <<"B">> >>), Some(<< <<"f", "a">> >>), None)

VolSa ==
    Volume(Some(<<"S", "a">>), Some(<< <<"A">>, <<"B">> >>), Some(<< <<"f", "a">> >>),
           Some(<< Isbn10(<<"7">>), Isbn13(<<"9">>) >>))

\* the ISBN of VolSa under another title
VolSb ==
    Volume(Some(<<"S", "b">>), None, Some(<< <<"s", "f">> >>),
           Some(<< Isbn13(<<"9">>) >>))

\* an empty title
VolEmpty ==
    Volume(Some(<<>>), Some(<< <<"A">> >>), None, None)

\* the ISBN of BookDune under another title
VolDuneIsbn ==
    Volume(Some(<<"S", "x">>), None, Some(<< <<"F", "a">> >>),
           Some(<< Isbn10(<<"1">>) >>))

\* a volume with no field at all
VolBare == Volume(None, None, None, None)

\* the title of VolSa in capitals, with more matching genres
VolSaCaps ==
    Volume(Some(<<"S", "A">>), Some(<< <<"A">> >>),
           Some(<< <<"f", "a">>, <<"s", "f">> >>), None)

Responses ==
    { <<VolHobbit, VolSa>>, <<VolSb, VolEmpty>>, <<VolDuneIsbn, VolBare, VolSaCaps>> }

\* what http.get('/volumes') does: it raises (network error, timeout, HTTP
\* status), or answers with or without `items`
HttpOutcomes ==
    { [ok |-> FALSE, items |-> None], [ok |-> TRUE, items |-> None] }
        \cup { [ok |-> TRUE, items |-> Some(r)] : r \in Responses }

----------------------------------------------------------------------------
(* The state machine: one invocation of getRecommendations() *)

\* no call of BooksService.update or of ShelvesService was made
NoCall == [op |-> "none"]

\* the books and shelves services are not part of the run
LibraryIdle ==
    /\ library = <<>>
    /\ found = None
    /\ request = NoCall
    /\ shelfCall = NoCall
    /\ shelfCallBefore = NoCall

\* the locals of an invocation that has not read the catalog yet; `overlap`
\* records that the invocation ran while the other one was suspended
Idle ==
    [ pc          |-> "start",
      allBooks    |-> <<>>,
      profile     |-> <<>>,
      localScored |-> <<>>,
      pending     |-> <<>>,
      suggestions |-> <<>>,
      queries     |-> <<>>,
      thrown      |-> None,
      result      |-> <<>>,
      overlap     |-> FALSE ]

Init ==
    /\ catalog \in Catalogs
    /\ pc = "start"
    /\ allBooks = <<>>
    /\ profile = <<>>
    /\ localScored = <<>>
    /\ pending = <<>>
    /\ suggestions = <<>>
    /\ queries = <<>>
    /\ thrown = None
    /\ result = <<>>
    /\ second = Idle
    /\ LibraryIdle

\* booksRepo.find() raises: the rejection leaves getRecommendations()
FindFails ==
    /\ pc = "start"
    /\ pc' = "error"
    /\ thrown' = Some("find")
    /\ UNCHANGED <<catalog, allBooks, profile, localScored, pending, suggestions,
                   queries, result, second>>
    /\ UNCHANGED libraryVars

\* booksRepo.find() answers; the code runs up to its next await or its return
FindOk ==
    /\ pc = "start"
    /\ allBooks' = catalog
    /\ UNCHANGED <<catalog, suggestions, queries, thrown, second>>
    /\ UNCHANGED libraryVars
    /\ IF Favorites(catalog) = <<>>
       THEN /\ pc' = "done"
            /\ result' = <<>>
            /\ UNCHANGED <<profile, localScored, pending>>
       ELSE LET p  == BuildProfile(Favorites(catalog))
                ls == LocalScored(catalog, p)
            IN  /\ profile' = p
                /\ localScored' = ls
                /\ IF Len(ls) >= MIN_LOCAL_CANDIDATES
                   THEN /\ pc' = "done"
                        /\ result' = ls
                        /\ pending' = <<>>
                   ELSE IF TopGenres(p) = <<>>
                        THEN /\ pc' = "done"
                             /\ result' = Combined(ls, <<>>)
                             /\ pending' = <<>>
                        ELSE /\ pc' = "query"
                             /\ result' = result
                             /\ pending' = TopGenres(p)

\* variant of Search: a failed query ends the loop over the genres
SearchStopsAtFailure(http) ==
    /\ pc = "query"
    /\ LET meta == SearchByGenre(http)
           ss   == suggestions \o Pushed(meta, profile, allBooks)
           last == Tail(pending) = <<>> \/ ~http.ok
       IN  /\ queries' = Append(queries,
                                [genre |-> Head(pending), ok |-> http.ok, meta |-> meta])
           /\ suggestions' = ss
           /\ pending' = IF last THEN <<>> ELSE Tail(pending)
           /\ IF last
              THEN /\ pc' = "done"
                   /\ result' = Combined(localScored, ExternalBooks(ss))
              ELSE /\ pc' = "query"
                   /\ result' = result
    /\ UNCHANGED <<catalog, allBooks, profile, localScored, thrown, second>>
    /\ UNCHANGED libraryVars

\* variant of Search: the failure of a query leaves getRecommendations()
SearchPropagatesFailure(http) ==
    /\ pc = "query"
    /\ LET meta == SearchByGenre(http)
           ss   == suggestions \o Pushed(meta, profile, allBooks)
       IN  /\ queries' = Append(queries,
                                [genre |-> Head(pending), ok |-> http.ok, meta |-> meta])
           /\ suggestions' = ss
           /\ pending' = Tail(pending)
           /\ IF ~http.ok
              THEN /\ pc' = "error"
                   /\ thrown' = Some("search")
                   /\ result' = result
              ELSE /\ thrown' = thrown
                   /\ IF Tail(pending) = <<>>
                      THEN /\ pc' = "done"
                           /\ result' = Combined(localScored, ExternalBooks(ss))
                      ELSE /\ pc' = "query"
                           /\ result' = result
    /\ UNCHANGED <<catalog, allBooks, profile, localScored, second>>
    /\ UNCHANGED libraryVars

\* one iteration of the loop over topGenres: the awaited searchByGenre(genre)
\* settles with the outcome `http` of its HTTP call; after the last genre the
\* code runs on to the return of getRecommendations()
Search(http) ==
    /\ pc = "query"
    /\ LET meta == SearchByGenre(http)
           ss   == suggestions \o Pushed(meta, profile, allBooks)
       IN  /\ queries' = Append(queries,
                                [genre |-> Head(pending), ok |-> http.ok, meta |-> meta])
           /\ suggestions' = ss
           /\ pending' = Tail(pending)
           /\ IF Tail(pending) = <<>>
              THEN /\ pc' = "done"
                   /\ result' = Combined(localScored, ExternalBooks(ss))
              ELSE /\ pc' = "query"
                   /\ result' = result
    /\ UNCHANGED <<catalog, allBooks, profile, localScored, thrown, second>>
    /\ UNCHANGED libraryVars

Next ==
    \/ FindFails
    \/ FindOk
    \/ \E http \in HttpOutcomes : Search(http)

Spec == Init /\ [][Next]_vars

----------------------------------------------------------------------------
(* Vocabulary of the properties, stated on the catalog and the output      *)
(* without going through the filters of the code                           *)

Indices(xs) == 1..Len(xs)

CatalogHasFavorite ==
    \E i \in Indices(catalog) :
        /\ catalog[i].rating # None
        /\ Get(catalog[i].rating) >= 3
        /\ catalog[i].status = Some("finished")

CatalogHasCandidate ==
    \E i \in Indices(catalog) :
        catalog[i].status \in { Some("unread"), Some("in_progress") }

ProfileHasGenreKey == \E i \in Indices(profile) : StartsWith(profile[i].k, GenrePrefix)

ExternalCount(xs) == Cardinality({ i \in Indices(xs) : xs[i].isExternal })

LocalCount(xs) == Cardinality({ i \in Indices(xs) : ~xs[i].isExternal })

\* a failed external query was made
SomeQueryFailed == \E q \in Indices(queries) : ~queries[q].ok

----------------------------------------------------------------------------
(* C1 *)

----------------------------------------------------------------------------
(* C2 *)

\* C2 as stated: with at least one favorite and no unread or in-progress
\* item, the list returned is empty and no external augmentation is performed.
C2_EmptyWithoutCandidates ==
    (pc = "done" /\ CatalogHasFavorite /\ ~CatalogHasCandidate) =>
        (result = <<>> /\ queries = <<>>)

\* C2 amended: with at least one favorite and no unread or in-progress item,
\* the list returned holds no local item: external augmentation is performed
\* whenever the profile has a genre key, every returned item is external, and
\* the list is empty when the profile has no genre key.
C2_OnlyExternalWithoutCandidates ==
    (pc = "done" /\ CatalogHasFavorite /\ ~CatalogHasCandidate) =>
        /\ \A i \in Indices(result) : result[i].isExternal /\ result[i].book.id = None
        /\ ProfileHasGenreKey => queries # <<>>
        /\ ~ProfileHasGenreKey => (queries = <<>> /\ result = <<>>)

\* a run without candidates that returns external items
C2_Witness ==
    /\ pc = "done"
    /\ CatalogHasFavorite
    /\ ~CatalogHasCandidate
    /\ result # <<>>

----------------------------------------------------------------------------
(* C3 *)

\* C3: the list returned is sorted by score in non-increasing order, and of a
\* local and an external item with the same score the local one comes first.
C3_Ordering ==
    pc = "done" =>
        \A i, j \in Indices(result) :
            i < j =>
                /\ ~ScoreGreater(result[j].score, result[i].score)
                /\ ~( /\ ScoreEqual(result[i].score, result[j].score)
                      /\ result[i].isExternal
                      /\ ~result[j].isExternal )

\* a returned list in which a local and an external item have the same score
C3_Witness ==
    /\ pc = "done"
    /\ \E i, j \in Indices(result) :
           /\ i < j
           /\ ~result[i].isExternal
           /\ result[j].isExternal
           /\ ScoreEqual(result[i].score, result[j].score)
    /\ \E i, j \in Indices(result) : ScoreGreater(result[i].score, result[j].score)

----------------------------------------------------------------------------
(* C4 *)

\* C4: the list returned never has more than 12 items.
C4_Truncation == pc = "done" => Len(result) <= 12

\* more than 12 candidates score above zero and exactly 12 are returned
C4_Witness ==
    /\ pc = "done"
    /\ Len(result) = 12
    /\ Cardinality({ i \in Indices(catalog) :
                       /\ catalog[i].status \in { Some("unread"), Some("in_progress") }
                       /\ ScorePositive(ScoreBook(catalog[i], profile, FALSE).score) }) > 12

----------------------------------------------------------------------------
(* C5 *)

\* two items carry the same identifier: the same id, or the same ISBN
SameIdentifier(a, b) ==
    \/ a.id # None /\ a.id = b.id
    \/ a.isbn # None /\ a.isbn = b.isbn

\* C5: no two items of the list returned share an identifier; in particular
\* two external items with one ISBN and different titles are never both
\* returned.
C5_NoSharedIdentifier ==
    pc = "done" =>
        \A i, j \in Indices(result) :
            i # j => ~SameIdentifier(result[i].book, result[j].book)

----------------------------------------------------------------------------
(* C6 *)

\* the external item x duplicates the catalog row b: same ISBN, or same title
\* up to case
DuplicatesRow(x, b) ==
    \/ x.isbn # None /\ x.isbn = b.isbn
    \/ x.title # None /\ ToLowerCase(Get(x.title)) = ToLowerCase(Get(b.title))

\* C6: no external item of the list returned has the ISBN of a catalog item
\* or, ignoring case, the title of a catalog item, whatever that item's status.
C6_NoCatalogDuplicate ==
    pc = "done" =>
        \A i \in Indices(result) :
            result[i].isExternal =>
                \A k \in Indices(catalog) : ~DuplicatesRow(result[i].book, catalog[k])

----------------------------------------------------------------------------
(* C7 *)

\* the item x returned by a query is neither owned already (ISBN, or title up
\* to case) nor scored zero against the profile of the run
ExternalSurvivor(x) ==
    /\ ~\E k \in Indices(allBooks) :
           \/ Truthy(x.isbn) /\ x.isbn = allBooks[k].isbn
           \/ Truthy(x.title)
                  /\ ToLowerCase(Get(x.title)) = ToLowerCase(Get(allBooks[k].title))
    /\ ScorePositive(ScoreBook(x, profile, TRUE).score)

\* C7: external isolation.  A genre query that raises or times out stops
\* neither the remaining genre queries nor the run: every selected genre is
\* queried, and the list returned holds every local scored item and, for
\* every surviving item of a query that succeeded, an external item of that
\* title (unless the 6 external places are taken).
C7_ExternalIsolation ==
    (pc = "done" /\ queries # <<>>) =>
        /\ Len(queries) = Len(TopGenres(profile))
        /\ \A q \in Indices(queries) : queries[q].genre = TopGenres(profile)[q]
        /\ \A i \in Indices(localScored) :
               \E j \in Indices(result) : result[j] = localScored[i]
        /\ \A q \in Indices(queries) :
               \A m \in Indices(queries[q].meta) :
                   (queries[q].ok /\ ExternalSurvivor(queries[q].meta[m])) =>
                       \/ ExternalCount(result) = 6
                       \/ \E j \in Indices(result) :
                              /\ result[j].isExternal
                              /\ TitleKey(result[j])
                                     = ToLowerCase(OrElse(queries[q].meta[m].title, <<>>))

\* two local items, a failed query followed by a query returning two items of
\* which one has the title of a catalog item: 2 local and 1 external returned
C7_Witness ==
    /\ pc = "done"
    /\ Len(localScored) = 2
    /\ Len(queries) = 2
    /\ ~queries[1].ok
    /\ queries[2].ok
    /\ Len(queries[2].meta) = 2
    /\ \E m \in Indices(queries[2].meta) :
           \E k \in Indices(catalog) :
               /\ queries[2].meta[m].title # None
               /\ ToLowerCase(Get(queries[2].meta[m].title))
                      = ToLowerCase(Get(catalog[k].title))
    /\ LocalCount(result) = 2
    /\ ExternalCount(result) = 1

----------------------------------------------------------------------------
(* C8 *)

\* a volume without title, authors, categories and identifiers was returned
SomeBareItem ==
    \E q \in Indices(queries) :
        \E m \in Indices(queries[q].meta) :
            /\ queries[q].meta[m].title = None
            /\ queries[q].meta[m].author = None
            /\ queries[q].meta[m].genres = None

\* C8: the invocation ends with a list or with a hard error; the error comes
\* only from reading the catalog: once the catalog is read, no failure of a
\* genre query and no incomplete external item ends the invocation in an
\* error, and an invocation waiting for a query has a genre left to query, so
\* that every outcome of the query lets it go on.
C8_Outcomes ==
    /\ pc \in { "start", "query", "done", "error" }
    /\ pc = "error" => (thrown = Some("find") /\ queries = <<>> /\ allBooks = <<>>)
    /\ pc # "error" => thrown = None
    /\ queries # <<>> => pc \in { "query", "done" }
    /\ pc = "query" => pending # <<>>
    /\ pc = "done" => pending = <<>>

\* a finished run in which one query failed and another returned a bare item
C8_Witness ==
    /\ pc = "done"
    /\ thrown = None
    /\ SomeQueryFailed
    /\ SomeBareItem

----------------------------------------------------------------------------
(* C9 *)

\* the items scoreBook is applied to in a run: the rows of the snapshot and
\* the items returned by the queries
Scorables ==
    { allBooks[i] : i \in Indices(allBooks) }
        \cup UNION { { queries[q].meta[m] : m \in Indices(queries[q].meta) } :
                     q \in Indices(queries) }

SharesNoKey(b, p) == \A i \in Indices(Features(b)) : ~ProfileHas(p, Features(b)[i])

\* C9: scoreBook returns a score >= 0, and exactly 0 when none of the
\* candidate's feature keys is a key of the profile.
C9_ScoreBounds ==
    \A b \in Scorables :
        LET s == ScoreBook(b, profile, FALSE).score
        IN  /\ s.num >= 0
            /\ s.sq > 0
            /\ SharesNoKey(b, profile) => (s.num = 0 /\ ~ScorePositive(s))

\* against a non-empty profile, one candidate shares no key and another does
C9_Witness ==
    /\ profile # <<>>
    /\ \E b \in Scorables : SharesNoKey(b, profile) /\ b.status = Some("unread")
    /\ \E b \in Scorables : ScorePositive(ScoreBook(b, profile, FALSE).score)
    /\ \E b \in Scorables : b.id = None /\ SharesNoKey(b, profile)

----------------------------------------------------------------------------
(* C10 *)

\* the feature keys of b are exactly the keys of the profile, each once
ExactMatch(b, p) ==
    /\ p # <<>>
    /\ \A i, j \in Indices(Features(b)) : Features(b)[i] = Features(b)[j] => i = j
    /\ { Features(b)[i] : i \in Indices(Features(b)) } = { p[i].k : i \in Indices(p) }

RECURSIVE SumWeights(_)
SumWeights(p) == IF p = <<>> THEN 0 ELSE Head(p).w + SumWeights(Tail(p))

\* C10 as stated: a candidate that matches the profile's full weight exactly
\* has a score that does not exceed 1.
C10_ExactMatchAtMostOne ==
    \A b \in Scorables :
        ExactMatch(b, profile) => ~ScoreAboveOne(ScoreBook(b, profile, FALSE).score)

\* C10 amended: a candidate that matches the profile's full weight exactly
\* has the score (sum of the weights) / norm, which is never below 1 and
\* exceeds 1 whenever the profile has two keys or more.
C10_ExactMatchAtLeastOne ==
    \A b \in Scorables :
        ExactMatch(b, profile) =>
            LET s == ScoreBook(b, profile, FALSE).score
            IN  /\ s.num = SumWeights(profile)
                /\ s.sq = SumSquares(profile)
                /\ s.num * s.num >= s.sq
                /\ Len(profile) >= 2 => s.num * s.num > s.sq

\* a local candidate matching the whole profile was scored and returned
C10_Witness ==
    /\ pc = "done"
    /\ \E i \in Indices(result) :
           /\ ~result[i].isExternal
           /\ ExactMatch(result[i].book, profile)
           /\ ScoreAboveOne(result[i].score)

----------------------------------------------------------------------------
(* C11 *)

\* the book of x is a row of the snapshot whose status is unread or in progress
FromSnapshot(x) ==
    \E k \in Indices(allBooks) :
        /\ allBooks[k] = x.book
        /\ allBooks[k].status \in { Some("unread"), Some("in_progress") }

\* the book of x was returned by a query of this invocation
FromQuery(x) ==
    \E q \in Indices(queries) :
        \E m \in Indices(queries[q].meta) : queries[q].meta[m] = x.book

\* C11: provenance.  Every item of the output (and of localScored) with
\* isExternal = false is an item of the catalog snapshot whose status is
\* unread or in progress, so no finished or abandoned item is recommended;
\* every item with isExternal = true was returned by an external genre query
\* of this same invocation.
C11_Provenance ==
    /\ \A i \in Indices(localScored) :
           ~localScored[i].isExternal /\ FromSnapshot(localScored[i])
    /\ \A i \in Indices(suggestions) :
           suggestions[i].isExternal /\ FromQuery(suggestions[i])
    /\ \A i \in Indices(result) :
           IF result[i].isExternal THEN FromQuery(result[i])
                                   ELSE FromSnapshot(result[i])

\* a returned list with a local and an external item, from a snapshot that
\* also holds a finished and an abandoned book
C11_Witness ==
    /\ pc = "done"
    /\ \E i \in Indices(result) : result[i].isExternal
    /\ \E i \in Indices(result) : ~result[i].isExternal
    /\ \E k \in Indices(allBooks) : allBooks[k].status = Some("finished")
    /\ \E k \in Indices(allBooks) : allBooks[k].status = Some("abandoned")

----------------------------------------------------------------------------
(* A second family of catalogs: rows that repeat a genre, spell it twice,   *)
(* carry one value under two kinds, or a value holding a ':'                *)

\* longest catalog of the second family enumerated book by book
MaxScoringCatalog == 3

\* the threshold catalogs hold MIN_LOCAL_CANDIDATES - 1 .. MIN_LOCAL_CANDIDATES
\* + MaxAbove candidates
MaxAbove == 1

Fantasy == <<"f", "a", "n", "t", "a", "s", "y">>

FantasyCaps == <<"F", "a", "n", "t", "a", "s", "y">>

FantasySpaced == <<" ", "f", "a", "n", "t", "a", "s", "y">>

\* a value holding a ':'
Scifi == <<"s", ":", "f">>

Formats == { FORMAT_EPUB, FORMAT_MP3, FORMAT_OTHER }

\* a 5-star favorite of genre fantasy by author A
BookFantasyFav(format) ==
    Row(<<"F", "v">>, <<"A">>, None, Some(<<Fantasy>>), None, format, Some(5), FINISHED)

\* a 5-star favorite that spells its one genre twice
BookFantasyFavTwice ==
    Row(<<"F", "w">>, <<"A">>, None,
        Some(<<FantasyCaps, FantasySpaced>>), None, FORMAT_EPUB, Some(5), FINISHED)

\* an unread book of genre fantasy by author B
BookFantasyUnread(format) ==
    Row(<<"F", "u">>, <<"B">>, None, Some(<<Fantasy>>), None, format, None, UNREAD)

\* an unread book that spells its one genre twice
BookTwice ==
    Row(<<"T", "w">>, <<"B">>, None,
        Some(<<FantasyCaps, FantasySpaced>>), None, FORMAT_MP3, None, UNREAD)

\* an unread, rated book by author A with a genre named like a format and a
\* genre named like the tag of BookTagged
BookByA ==
    Row(<<"B", "y">>, <<" ", "a">>, None,
        Some(<< FORMAT_EPUB, <<"D">> >>), None, FORMAT_MP3, Some(4), UNREAD)

\* a 4-star favorite with the value x as genre and (twice) as tag, and a tag
\* holding a ':'
BookSeriesFav ==
    Row(<<"S", "e">>, <<"A">>, None,
        Some(<< <<"x">> >>), Some(<< <<"x">>, Scifi, <<"X", " ">> >>),
        FORMAT_OTHER, Some(4), FINISHED)

\* a book in progress with the value x as genre and as tag, the tag holding
\* a ':', fantasy as a tag and x's favorite format as a genre
BookSeries ==
    Row(<<"S", "r">>, <<"H">>, None,
        Some(<< <<"x">>, FORMAT_OTHER >>), Some(<< <<"x">>, Scifi, Fantasy >>),
        FORMAT_MP3, None, IN_PROGRESS)

\* a finished book without a rating
BookUnrated ==
    Row(<<"U", "n">>, <<"H">>, None,
        Some(<< <<"h">> >>), Some(<< <<"d">> >>), FORMAT_MP3, None, FINISHED)

\* a finished book rated below MIN_RATING
BookDisliked ==
    Row(<<"D", "i">>, <<"D">>, None,
        Some(<< <<"h">> >>), Some(<< <<"d">> >>), FORMAT_MP3, Some(2), FINISHED)

\* a 3-star favorite without genres
BookTagged ==
    Row(<<"T", "a">>, <<"H">>, None,
        None, Some(<< <<"d">> >>), FORMAT_MP3, Some(3), FINISHED)

ScoringPool ==
    { BookFantasyFav(FORMAT_EPUB), BookFantasyUnread(FORMAT_EPUB), BookTwice, BookByA,
      BookSeriesFav, BookSeries, BookUnrated, BookDisliked, BookTagged }

\* every sequence of at most MaxScoringCatalog rows of the pool
EnumeratedCatalogs == UNION { [1..n -> ScoringPool] : n \in 0..MaxScoringCatalog }

\* one favorite and one unread book of the same genre, in every pair of formats
FormatCatalogs ==
    { <<BookFantasyFav(f1), BookFantasyUnread(f2)>> : f1 \in Formats, f2 \in Formats }

\* one favorite, a book sharing only its genre and a book sharing only its
\* author, the two candidates in both orders
RivalCatalogs ==
    UNION { { <<fav, byGenre, BookByA>>, <<fav, BookByA, byGenre>> } :
                fav \in { BookFantasyFav(FORMAT_EPUB), BookFantasyFavTwice },
                byGenre \in { BookFantasyUnread(FORMAT_MP3), BookTwice } }

\* one favorite followed by n candidates with a positive score
ThresholdCatalog(n) ==
    <<BookFantasyFav(FORMAT_EPUB)>>
        \o [i \in 1..n |-> IF i % 2 = 1 THEN BookFantasyUnread(FORMAT_MP3) ELSE BookByA]

ThresholdCatalogs ==
    { ThresholdCatalog(n) :
          n \in (MIN_LOCAL_CANDIDATES - 1)..(MIN_LOCAL_CANDIDATES + MaxAbove) }

ScoringCatalogs ==
    { WithIds(rows) : rows \in EnumeratedCatalogs \cup FormatCatalogs
                                   \cup RivalCatalogs \cup ThresholdCatalogs }

InitScoring ==
    /\ catalog \in ScoringCatalogs
    /\ pc = "start"
    /\ allBooks = <<>>
    /\ profile = <<>>
    /\ localScored = <<>>
    /\ pending = <<>>
    /\ suggestions = <<>>
    /\ queries = <<>>
    /\ thrown = None
    /\ result = <<>>
    /\ second = Idle
    /\ LibraryIdle

\* one invocation of getRecommendations() on a catalog of the second family
SpecScoring == InitScoring /\ [][Next]_vars

----------------------------------------------------------------------------
(* C12 *)

Normal(s) == Trim(ToLowerCase(s))

KindPrefix(kind) ==
    CASE kind = "genre"  -> GenrePrefix
      [] kind = "tag"    -> TagPrefix
      [] kind = "author" -> AuthorPrefix
      [] kind = "format" -> FormatPrefix

\* the features of a book as pairs <<kind, value>>
KindValues(b) ==
    { <<"genre", Normal(OrElse(b.genres, <<>>)[i])>> : i \in Indices(OrElse(b.genres, <<>>)) }
        \cup { <<"tag", Normal(OrElse(b.tags, <<>>)[i])>> : i \in Indices(OrElse(b.tags, <<>>)) }
        \cup { <<"author", Normal(OrElse(b.author, <<>>))>>,
               <<"format", OrElse(b.format, <<"o", "t", "h", "e", "r">>)>> }

\* the weight the profile gives to the value under that kind
WeightOf(p, kv) == ProfileGet(p, KindPrefix(kv[1]) \o kv[2])

\* the values of b that have a positive weight in p under their kind
PositiveValues(b, p) == { kv[2] : kv \in { x \in KindValues(b) : WeightOf(p, x) > 0 } }

NoDuplicate(xs) == \A i, j \in Indices(xs) : xs[i] = xs[j] => i = j

MatchedAsSpecified(x) ==
    /\ NoDuplicate(x.matchedFeatures)
    /\ { x.matchedFeatures[i] : i \in Indices(x.matchedFeatures) }
           = PositiveValues(x.book, profile)

\* C12: for every scored item, matchedFeatures holds no string twice and is
\* exactly the set of the kind-stripped values of the candidate's feature
\* keys that have a positive weight in the profile; a value holding a ':'
\* keeps everything after the kind prefix, and a value matched under two
\* kinds (as genre and as tag) is listed once.
C12_MatchedFeatures ==
    /\ \A i \in Indices(localScored) : MatchedAsSpecified(localScored[i])
    /\ \A i \in Indices(suggestions) : MatchedAsSpecified(suggestions[i])
    /\ \A i \in Indices(result) : MatchedAsSpecified(result[i])

\* a returned item that matches the value x as genre and as tag and a value
\* holding a ':'
C12_Witness ==
    /\ pc = "done"
    /\ \E i \in Indices(result) :
           /\ WeightOf(profile, <<"genre", <<"x">>>>) > 0
           /\ WeightOf(profile, <<"tag", <<"x">>>>) > 0
           /\ { <<"genre", <<"x">>>>, <<"tag", <<"x">>>>, <<"tag", <<"s", ":", "f">>>> }
                  \subseteq KindValues(result[i].book)
           /\ \E m \in Indices(result[i].matchedFeatures) :
                  result[i].matchedFeatures[m] = <<"s", ":", "f">>
           /\ Cardinality({ m \in Indices(result[i].matchedFeatures) :
                                result[i].matchedFeatures[m] = <<"x">> }) = 1

----------------------------------------------------------------------------
(* Two invocations of getRecommendations() over one books table *)

\* the locals of an invocation when its booksRepo.find() has answered `books`
\* and the code has run up to its next await or its return
AfterFind(st, books) ==
    IF Favorites(books) = <<>>
    THEN [st EXCEPT !.pc = "done", !.allBooks = books, !.result = <<>>]
    ELSE LET p  == BuildProfile(Favorites(books))
             ls == LocalScored(books, p)
             tg == TopGenres(p)
         IN  [st EXCEPT
                 !.allBooks    = books,
                 !.profile     = p,
                 !.localScored = ls,
                 !.pc          = IF Len(ls) >= MIN_LOCAL_CANDIDATES \/ tg = <<>>
                                 THEN "done" ELSE "query",
                 !.pending     = IF Len(ls) >= MIN_LOCAL_CANDIDATES THEN <<>> ELSE tg,
                 !.result      = IF Len(ls) >= MIN_LOCAL_CANDIDATES THEN ls
                                 ELSE IF tg = <<>> THEN Combined(ls, <<>>)
                                 ELSE st.result]

\* variant of AfterSearch: `suggestions` is a field of the service, shared by
\* the invocations
AfterSearchSharedSuggestions(st, http) ==
    LET meta == SearchByGenre(http)
        ss   == suggestions \o st.suggestions \o Pushed(meta, st.profile, st.allBooks)
        last == Tail(st.pending) = <<>>
    IN  [st EXCEPT
            !.queries     = Append(st.queries, [genre |-> Head(st.pending),
                                                ok |-> http.ok, meta |-> meta]),
            !.suggestions = ss,
            !.pending     = Tail(st.pending),
            !.pc          = IF last THEN "done" ELSE "query",
            !.result      = IF last THEN Combined(st.localScored, ExternalBooks(ss))
                            ELSE st.result]

\* the locals of an invocation when its awaited searchByGenre(genre) has
\* settled with the outcome `http`
AfterSearch(st, http) ==
    LET meta == SearchByGenre(http)
        ss   == st.suggestions \o Pushed(meta, st.profile, st.allBooks)
        last == Tail(st.pending) = <<>>
    IN  [st EXCEPT
            !.queries     = Append(st.queries, [genre |-> Head(st.pending),
                                                ok |-> http.ok, meta |-> meta]),
            !.suggestions = ss,
            !.pending     = Tail(st.pending),
            !.pc          = IF last THEN "done" ELSE "query",
            !.result      = IF last THEN Combined(st.localScored, ExternalBooks(ss))
                            ELSE st.result]

firstVars == <<pc, allBooks, profile, localScored, pending, suggestions, queries,
               thrown, result>>

\* the second invocation: booksRepo.find() raises
SecondFindFails ==
    /\ second.pc = "start"
    /\ second' = [second EXCEPT !.pc = "error", !.thrown = Some("find"),
                                !.overlap = @ \/ pc = "query"]
    /\ UNCHANGED <<catalog, firstVars>>
    /\ UNCHANGED libraryVars

\* the second invocation: booksRepo.find() answers
SecondFindOk ==
    /\ second.pc = "start"
    /\ second' = [AfterFind(second, catalog) EXCEPT !.overlap = @ \/ pc = "query"]
    /\ UNCHANGED <<catalog, firstVars>>
    /\ UNCHANGED libraryVars

\* the second invocation: one awaited searchByGenre(genre) settles
SecondSearch(http) ==
    /\ second.pc = "query"
    /\ second' = [AfterSearch(second, http) EXCEPT !.overlap = @ \/ pc = "query"]
    /\ UNCHANGED <<catalog, firstVars>>
    /\ UNCHANGED libraryVars

\* BooksService.remove(id): another request deletes the book of that id;
\* findOne(id) raises when there is no such book and nothing is deleted
Remove(id) ==
    /\ \E k \in 1..Len(catalog) : catalog[k].id = Some(id)
    /\ catalog' = SelectSeq(catalog, LAMBDA b : b.id # Some(id))
    /\ UNCHANGED <<firstVars, second>>
    /\ UNCHANGED libraryVars

TwoCatalogs ==
    { WithIds(<<BookDune, BookHobbit, BookSaga>>),
      WithIds(<<BookSaga, BookHorror, BookEmma>>) }

\* the ids of the rows of these catalogs
BookIds == UNION { { Get(c[k].id) : k \in 1..Len(c) } : c \in TwoCatalogs }

InitTwo ==
    /\ catalog \in TwoCatalogs
    /\ pc = "start"
    /\ allBooks = <<>>
    /\ profile = <<>>
    /\ localScored = <<>>
    /\ pending = <<>>
    /\ suggestions = <<>>
    /\ queries = <<>>
    /\ thrown = None
    /\ result = <<>>
    /\ second = Idle
    /\ LibraryIdle

\* the outcomes of the HTTP calls of the two invocations
TwoOutcomes ==
    { [ok |-> FALSE, items |-> None],
      [ok |-> TRUE, items |-> Some(<<VolHobbit, VolSa>>)],
      [ok |-> TRUE, items |-> Some(<<VolDuneIsbn, VolBare, VolSaCaps>>)] }

NextTwo ==
    \/ FindFails
    \/ FindOk
    \/ \E http \in TwoOutcomes : Search(http)
    \/ SecondFindFails
    \/ SecondFindOk
    \/ \E http \in TwoOutcomes : SecondSearch(http)
    \/ \E id \in BookIds : Remove(id)

\* two invocations interleaved in every way, and deletions from the table
SpecTwo == InitTwo /\ [][NextTwo]_vars

----------------------------------------------------------------------------
(* C13 *)

\* what all the queries of the log qs push onto `suggestions`
RECURSIVE PushedAll(_, _, _)
PushedAll(qs, p, books) ==
    IF qs = <<>> THEN <<>>
    ELSE Pushed(Head(qs).meta, p, books) \o PushedAll(Tail(qs), p, books)

\* the list one invocation returns when it runs alone on the snapshot `books`
\* and receives the answers logged in qs
Alone(books, qs) ==
    IF Favorites(books) = <<>> THEN <<>>
    ELSE LET p  == BuildProfile(Favorites(books))
             ls == LocalScored(books, p)
         IN  IF Len(ls) >= MIN_LOCAL_CANDIDATES THEN ls
             ELSE Combined(ls, ExternalBooks(PushedAll(qs, p, books)))

\* the external responses an invocation received
Metas(qs) == IF qs = <<>> THEN <<>> ELSE [q \in 1..Len(qs) |-> qs[q].meta]

\* C13: the invocations of getRecommendations share no mutable state.  When
\* two invocations interleave, each returns exactly the list it would return
\* if run alone on its own catalog snapshot and its own external responses,
\* and two invocations given the same snapshot and the same external
\* responses return the same list.
C13_Isolation ==
    /\ pc = "done" => result = Alone(allBooks, queries)
    /\ second.pc = "done" => second.result = Alone(second.allBooks, second.queries)
    /\ (/\ pc = "done"
        /\ second.pc = "done"
        /\ allBooks = second.allBooks
        /\ Metas(queries) = Metas(second.queries)) => result = second.result

\* both invocations have returned a list with external items, the second
\* having run while the first was suspended on a query, from different
\* snapshots and different responses
C13_Witness ==
    /\ pc = "done"
    /\ second.pc = "done"
    /\ second.overlap
    /\ allBooks # second.allBooks
    /\ Metas(queries) # Metas(second.queries)
    /\ Len(queries) > 1
    /\ Len(second.queries) > 1
    /\ ExternalCount(result) > 0
    /\ ExternalCount(second.result) > 0
    /\ result # second.result

----------------------------------------------------------------------------
(* C14 *)

\* the rows of the snapshot with status unread or in progress and a score > 0
PositiveCandidates ==
    { k \in Indices(allBooks) :
          /\ allBooks[k].status \in { Some("unread"), Some("in_progress") }
          /\ ScorePositive(ScoreBook(allBooks[k], profile, FALSE).score) }

\* the invocation has called searchByGenre or is about to
Queried == pc = "query" \/ queries # <<>>

\* C14: the external source is queried if and only if favorites exist, fewer
\* than 3 local candidates have a score > 0 and the profile has at least one
\* genre key; when 3 or more local candidates survive, no external query is
\* made and the output holds no external item.
C14_QueryCondition ==
    /\ pc \in { "start", "error" } => ~Queried
    /\ pc \in { "query", "done" } =>
           (Queried <=> /\ CatalogHasFavorite
                        /\ Cardinality(PositiveCandidates) < 3
                        /\ ProfileHasGenreKey)
    /\ (pc = "done" /\ Cardinality(PositiveCandidates) >= 3) =>
           (queries = <<>> /\ ExternalCount(result) = 0)

\* exactly 3 local candidates survive: the run ends without a query
C14_Witness ==
    /\ pc = "done"
    /\ CatalogHasFavorite
    /\ ProfileHasGenreKey
    /\ Cardinality(PositiveCandidates) = 3
    /\ queries = <<>>
    /\ Len(result) = 3

----------------------------------------------------------------------------
(* C15 *)

\* the row has a non-null rating >= 3 and status finished
Liked(b) ==
    /\ b.rating # None
    /\ Get(b.rating) >= 3
    /\ b.status = Some("finished")

\* the number of positions of xs that hold v once normalised
Occurrences(xs, v) == Cardinality({ i \in Indices(xs) : Normal(xs[i]) = v })

\* what one favorite of rating r adds to the key of kind kv[1] and value kv[2],
\* in tenths: rating/5 is 2r tenths, 1.5 * rating/5 is 3r, 0.5 * rating/5 is r
Contribution(b, kv) ==
    CASE kv[1] = "genre"  -> 2 * Get(b.rating) * Occurrences(OrElse(b.genres, <<>>), kv[2])
      [] kv[1] = "tag"    -> 2 * Get(b.rating) * Occurrences(OrElse(b.tags, <<>>), kv[2])
      [] kv[1] = "author" -> IF Normal(Get(b.author)) = kv[2] THEN 3 * Get(b.rating) ELSE 0
      [] kv[1] = "format" -> IF Get(b.format) = kv[2] THEN Get(b.rating) ELSE 0

\* the sum of the contributions of the liked rows among the first n rows
RECURSIVE LikedWeight(_, _, _)
LikedWeight(books, n, kv) ==
    IF n = 0 THEN 0
    ELSE LikedWeight(books, n - 1, kv)
             + (IF Liked(books[n]) THEN Contribution(books[n], kv) ELSE 0)

\* some liked row carries the key
CarriedByLiked(books, key) ==
    \E k \in Indices(books) :
        /\ Liked(books[k])
        /\ \E kv \in KindValues(books[k]) : KindPrefix(kv[1]) \o kv[2] = key

----------------------------------------------------------------------------
(* C16 *)

\* C16: buildProfile yields, for every key, the sum over the favorites of
\* their contributions: rating/5 for each occurrence of the genre or tag,
\* 1.5 * rating/5 for the author and 0.5 * rating/5 for the format.  The
\* contributions of several favorites to one key are added, never replaced:
\* three 5-star favorites by one author give that author the weight 4.5
\* (45 tenths).
C16_AdditiveProfile ==
    /\ \A i, j \in Indices(profile) : profile[i].k = profile[j].k => i = j
    /\ \A i \in Indices(profile) :
           profile[i].w > 0 /\ CarriedByLiked(allBooks, profile[i].k)
    /\ \A k \in Indices(allBooks) :
           Liked(allBooks[k]) =>
               \A kv \in KindValues(allBooks[k]) :
                   WeightOf(profile, kv) = LikedWeight(allBooks, Len(allBooks), kv)

\* three 5-star favorites by author A: the author's weight is 45 tenths
C16_Witness ==
    /\ Cardinality({ k \in Indices(allBooks) :
                         /\ Liked(allBooks[k])
                         /\ allBooks[k].rating = Some(5)
                         /\ Normal(Get(allBooks[k].author)) = <<"a">> }) = 3
    /\ WeightOf(profile, <<"author", <<"a">>>>) = 45
    /\ WeightOf(profile, <<"genre", Fantasy>>) = 30
    /\ WeightOf(profile, <<"format", <<"e", "p", "u", "b">>>>) = 15

----------------------------------------------------------------------------
(* C17 *)

\* the sum of the profile weights of a set of <<kind, value>> pairs
RECURSIVE SumWeightOf(_, _)
SumWeightOf(p, kvs) ==
    IF kvs = {} THEN 0
    ELSE LET kv == CHOOSE x \in kvs : TRUE
         IN  WeightOf(p, kv) + SumWeightOf(p, kvs \ {kv})

\* the dot product of x is the sum of the weights of its distinct keys
BinaryDot(x) == x.score.num = SumWeightOf(profile, KindValues(x.book))

\* C17: the candidate vector is binary.  Each distinct profile key adds its
\* weight at most once to a candidate's dot product, also when the candidate
\* lists the same genre or tag more than once or lists two spellings that
\* normalise to the same key ("Fantasy" and " fantasy").
C17_BinaryVector ==
    /\ \A i \in Indices(localScored) : BinaryDot(localScored[i])
    /\ \A i \in Indices(suggestions) : BinaryDot(suggestions[i])
    /\ \A i \in Indices(result) : BinaryDot(result[i])

----------------------------------------------------------------------------
(* C18 *)

\* the snapshot is the catalog of the scenario: row f is finished, rated 5, of
\* genres ["fantasy"] by "A"; row u is unread, of genres ["fantasy"] by "B"
FantasyPair(f, u) ==
    /\ Len(allBooks) = 2
    /\ { f, u } = { 1, 2 }
    /\ allBooks[f].status = Some("finished")
    /\ allBooks[f].rating = Some(5)
    /\ allBooks[f].genres = Some(<< <<"f", "a", "n", "t", "a", "s", "y">> >>)
    /\ allBooks[f].tags = None
    /\ allBooks[f].author = Some(<<"A">>)
    /\ allBooks[u].status = Some("unread")
    /\ allBooks[u].genres = Some(<< <<"f", "a", "n", "t", "a", "s", "y">> >>)
    /\ allBooks[u].tags = None
    /\ allBooks[u].author = Some(<<"B">>)

\* the profile norm of the scenario squared, in tenths: 1.0^2 + 1.5^2 + 0.5^2
NormSquared == 10 * 10 + 15 * 15 + 5 * 5

\* localScored holds the unread row alone, with that dot product (in tenths)
\* and those matched features
ScoredAs(u, dot, matched) ==
    /\ Len(localScored) = 1
    /\ localScored[1].book = allBooks[u]
    /\ localScored[1].matchedFeatures = matched
    /\ ScoreEqual(localScored[1].score, [num |-> dot, sq |-> NormSquared])

\* C18 as stated: in that catalog, whatever the formats of the two items, the
\* unread item matches genre:fantasy only: its matchedFeatures is exactly
\* ["fantasy"] and its score is 1.0 / sqrt(1.0^2 + 1.5^2 + 0.5^2).
C18_FantasyOnly ==
    \A f, u \in { 1, 2 } :
        (FantasyPair(f, u) /\ pc \in { "query", "done" }) =>
            ScoredAs(u, 10, << <<"f", "a", "n", "t", "a", "s", "y">> >>)

\* C18 amended: when the formats of the two items differ, the unread item
\* matches genre:fantasy only (matchedFeatures ["fantasy"], score 1.0 / norm);
\* when they are the same format, it matches the format as well
\* (matchedFeatures ["fantasy", <format>], score 1.5 / norm).
C18_FantasyAndFormat ==
    \A f, u \in { 1, 2 } :
        (FantasyPair(f, u) /\ pc \in { "query", "done" }) =>
            IF allBooks[f].format # allBooks[u].format
            THEN ScoredAs(u, 10, << <<"f", "a", "n", "t", "a", "s", "y">> >>)
            ELSE ScoredAs(u, 15, << <<"f", "a", "n", "t", "a", "s", "y">>,
                                    Get(allBooks[u].format) >>)

\* the scenario with an epub favorite and an mp3 candidate has been scored
\* and returned
C18_Witness ==
    /\ pc = "done"
    /\ FantasyPair(1, 2)
    /\ allBooks[1].format = Some(<<"e", "p", "u", "b">>)
    /\ allBooks[2].format = Some(<<"m", "p", "3">>)
    /\ \E i \in Indices(result) :
           /\ result[i].book = allBooks[2]
           /\ result[i].matchedFeatures = << <<"f", "a", "n", "t", "a", "s", "y">> >>

----------------------------------------------------------------------------
(* C19 *)

\* the normalised values of a list of genres or tags
Values(xs) == { Normal(OrElse(xs, <<>>)[i]) : i \in Indices(OrElse(xs, <<>>)) }

\* row f is the only favorite of the snapshot
SingleFavorite(f) ==
    /\ f \in Indices(allBooks)
    /\ Liked(allBooks[f])
    /\ \A k \in Indices(allBooks) : Liked(allBooks[k]) => k = f

SameAuthor(a, b) == Normal(Get(a.author)) = Normal(Get(b.author))

\* the unread row c shares with the favorite fav its author and nothing else
MatchesAuthorOnly(c, fav) ==
    /\ c.status = Some("unread")
    /\ SameAuthor(c, fav)
    /\ Values(c.genres) \cap Values(fav.genres) = {}
    /\ Values(c.tags) \cap Values(fav.tags) = {}
    /\ c.format # fav.format

\* the unread row c shares with the favorite fav one genre and nothing else
MatchesOneGenreOnly(c, fav) ==
    /\ c.status = Some("unread")
    /\ ~SameAuthor(c, fav)
    /\ Cardinality(Values(c.genres) \cap Values(fav.genres)) = 1
    /\ Values(c.tags) \cap Values(fav.tags) = {}
    /\ c.format # fav.format

\* the position of the row in the returned list (0 when it is not returned)
PositionOf(b) ==
    IF \E i \in Indices(result) : result[i].book = b
    THEN CHOOSE i \in Indices(result) : result[i].book = b
    ELSE 0

\* C19: against a profile built from a single favorite, an unread candidate
\* that matches only the favorite's author scores strictly higher than an
\* unread candidate that matches only one of the favorite's genres, and is
\* placed before it in the output.
C19_AuthorBeatsGenre ==
    \A f, a, g \in Indices(allBooks) :
        (/\ pc = "done"
         /\ SingleFavorite(f)
         /\ MatchesAuthorOnly(allBooks[a], allBooks[f])
         /\ MatchesOneGenreOnly(allBooks[g], allBooks[f])) =>
            /\ ScoreGreater(ScoreBook(allBooks[a], profile, FALSE).score,
                            ScoreBook(allBooks[g], profile, FALSE).score)
            /\ PositionOf(allBooks[a]) > 0
            /\ PositionOf(allBooks[a]) < PositionOf(allBooks[g])

----------------------------------------------------------------------------
(* C20 *)

\* some favorite of the snapshot carries the value under that very kind
LikedCarries(kv) ==
    \E k \in Indices(allBooks) : Liked(allBooks[k]) /\ kv \in KindValues(allBooks[k])

\* the list without the entries that normalise to v
Except(xs, v) ==
    IF IsNone(xs) THEN None
    ELSE Some(SelectSeq(Get(xs), LAMBDA s : Normal(s) # v))

\* the book without the genre, or without the tag, of that value
Without(b, kv) ==
    CASE kv[1] = "genre" -> [b EXCEPT !.genres = Except(b.genres, kv[2])]
      [] kv[1] = "tag"   -> [b EXCEPT !.tags = Except(b.tags, kv[2])]
      [] OTHER           -> b

\* the value is matched under some kind the favorites carry it under
MatchedUnderOwnKind(b, v) ==
    \E kv \in KindValues(b) : kv[2] = v /\ LikedCarries(kv)

\* C20: feature keys of different kinds never collide.  A value present in
\* the profile only under one kind (only as tag:x, or only as format:epub)
\* contributes nothing to the score of a candidate that carries the same
\* value only under another kind (genre x, or genre "epub").
C20_NoCrossKindCollision ==
    \A b \in Scorables :
        LET x == ScoreBook(b, profile, FALSE)
        IN  \A kv \in KindValues(b) :
                ~LikedCarries(kv) =>
                    /\ WeightOf(profile, kv) = 0
                    /\ ScoreBook(Without(b, kv), profile, FALSE).score = x.score
                    /\ (\E m \in Indices(x.matchedFeatures) : x.matchedFeatures[m] = kv[2])
                           => MatchedUnderOwnKind(b, kv[2])

\* a returned book of the genres "epub" and "d" and of another format, while
\* the profile holds "epub" as a format only and "d" as a tag only
C20_Witness ==
    /\ pc = "done"
    /\ WeightOf(profile, <<"format", <<"e", "p", "u", "b">>>>) > 0
    /\ WeightOf(profile, <<"tag", <<"d">>>>) > 0
    /\ \E i \in Indices(result) :
           /\ { <<"genre", <<"e", "p", "u", "b">>>>, <<"genre", <<"d">>>> }
                  \subseteq KindValues(result[i].book)
           /\ <<"format", <<"e", "p", "u", "b">>>> \notin KindValues(result[i].book)
           /\ <<"tag", <<"d">>>> \notin KindValues(result[i].book)
           /\ \A m \in Indices(result[i].matchedFeatures) :
                  result[i].matchedFeatures[m] \notin { <<"e", "p", "u", "b">>, <<"d">> }

----------------------------------------------------------------------------
(* A third family of catalogs: favorites only, with up to five genre keys,  *)
(* and answers of the external source with many titles                      *)

\* a 5-star favorite of the genres p and q
FavPQ ==
    Row(<<"D", "a">>, <<"A">>, None,
        Some(<< <<"p">>, <<"q">> >>), None, FORMAT_EPUB, Some(5), FINISHED)

\* a 5-star favorite of the genres r and s
FavRS ==
    Row(<<"D", "b">>, <<"B">>, None,
        Some(<< <<"r">>, <<"s">> >>), None, FORMAT_EPUB, Some(5), FINISHED)

\* a 3-star favorite of the genres q and t, of format other
FavQT ==
    Row(<<"D", "d">>, <<"D">>, None,
        Some(<< <<"q">>, <<"t">> >>), None, FORMAT_OTHER, Some(3), FINISHED)

\* a 4-star favorite without genres, with p as a tag
FavTagP ==
    Row(<<"D", "e">>, <<"H">>, None,
        None, Some(<< <<"p">> >>), FORMAT_MP3, Some(4), FINISHED)

\* a 4-star favorite of the genre s alone, by the author of FavPQ
FavS ==
    Row(<<"D", "g">>, <<"A">>, None,
        Some(<< <<"s">> >>), None, FORMAT_EPUB, Some(4), FINISHED)

FavoritePool == { FavPQ, FavRS, FavQT, FavTagP, FavS }

\* the largest number of rows of a catalog of the third family
MaxFavorites == 3

\* every sequence without repetition of at most MaxFavorites rows of the pool
FavoriteCatalogs ==
    { rows \in UNION { [1..n -> FavoritePool] : n \in 0..MaxFavorites } :
          \A i, j \in 1..Len(rows) : rows[i] = rows[j] => i = j }

Titled(title, authors, categories) ==
    Volume(Some(title), authors, categories, None)

\* three titles
AnswerOne ==
    << Titled(<<"E", "a">>, None, Some(<< <<"p">> >>)),
       Titled(<<"E", "b">>, None, Some(<< <<"q">>, <<"r">> >>)),
       Titled(<<"E", "d">>, Some(<< <<"A">> >>), Some(<< <<"s">> >>)) >>

\* three more titles
AnswerTwo ==
    << Titled(<<"E", "e">>, None, Some(<< <<"p">>, <<"q">> >>)),
       Titled(<<"E", "f">>, Some(<< <<"B">> >>), None),
       Titled(<<"E", "h">>, None, Some(<< <<"t">> >>)) >>

\* the first title of AnswerOne in capitals with more genres, a new title, and
\* a title that shares nothing with any favorite
AnswerThree ==
    << Titled(<<"E", "A">>, None, Some(<< <<"p">>, <<"q">>, <<"r">>, <<"s">> >>)),
       Titled(<<"E", "o">>, None, Some(<< <<"r">> >>)),
       Titled(<<"E", "x">>, None, None) >>

ExternalOutcomes ==
    { [ok |-> FALSE, items |-> None],
      [ok |-> TRUE, items |-> Some(AnswerOne)],
      [ok |-> TRUE, items |-> Some(AnswerTwo)],
      [ok |-> TRUE, items |-> Some(AnswerThree)] }

InitExternal ==
    /\ catalog \in { WithIds(rows) : rows \in FavoriteCatalogs }
    /\ pc = "start"
    /\ allBooks = <<>>
    /\ profile = <<>>
    /\ localScored = <<>>
    /\ pending = <<>>
    /\ suggestions = <<>>
    /\ queries = <<>>
    /\ thrown = None
    /\ result = <<>>
    /\ second = Idle
    /\ LibraryIdle

NextExternal ==
    \/ FindFails
    \/ FindOk
    \/ \E http \in ExternalOutcomes : Search(http)

\* one invocation of getRecommendations() on a catalog of the third family
SpecExternal == InitExternal /\ [][NextExternal]_vars

----------------------------------------------------------------------------
(* C21 *)

\* the genre values the favorites of the snapshot carry
LikedGenres ==
    UNION { Values(allBooks[k].genres) : k \in { j \in Indices(allBooks) : Liked(allBooks[j]) } }

\* the weight of a genre value, recounted over the favorites
GenreWeight(g) == LikedWeight(allBooks, Len(allBooks), <<"genre", g>>)

\* the genres the invocation has asked the external source for
QueriedGenres == { queries[q].genre : q \in Indices(queries) }

Smaller(a, b) == IF a < b THEN a ELSE b

\* C21: during augmentation at most 3 external queries are issued per
\* invocation, one for each of the 3 genre keys of the profile with the
\* highest weight (fewer when the profile has fewer genre keys), and none at
\* all when the profile has no genre key, in which case the external
\* contribution is empty.
C21_TopThreeGenres ==
    /\ Len(queries) + Len(pending) <= 3
    /\ \A q, r \in Indices(queries) : queries[q].genre = queries[r].genre => q = r
    /\ QueriedGenres \subseteq LikedGenres
    /\ (pc = "done" /\ Cardinality(PositiveCandidates) < 3) =>
           /\ Len(queries) = Smaller(3, Cardinality(LikedGenres))
           /\ \A g \in QueriedGenres :
                  \A h \in LikedGenres \ QueriedGenres : GenreWeight(g) >= GenreWeight(h)
           /\ LikedGenres = {} => ExternalCount(result) = 0

\* five genre keys of three different weights: three queries were made and a
\* genre of lower weight, and one of equal weight, were left out
C21_Witness ==
    /\ pc = "done"
    /\ Cardinality(LikedGenres) = 5
    /\ Len(queries) = 3
    /\ \E g \in QueriedGenres :
           /\ \E h \in LikedGenres \ QueriedGenres : GenreWeight(g) > GenreWeight(h)
           /\ \E h \in LikedGenres \ QueriedGenres : GenreWeight(g) = GenreWeight(h)

----------------------------------------------------------------------------
(* C22 *)

\* the title of a scored item, case-insensitively ('' when there is none)
LowerTitle(x) == ToLowerCase(OrElse(x.book.title, <<>>))

\* the i-th suggestion is the first one discovered with its title
FirstOfTitle(i) ==
    \A j \in 1..(i - 1) : LowerTitle(suggestions[j]) # LowerTitle(suggestions[i])

\* C22: the external result set holds at most one item per case-insensitive
\* title.  When the same title is returned more than once (by one or by
\* several genre queries), only the first occurrence in discovery order is
\* kept, even when a later occurrence has a higher score.
C22_FirstTitleKept ==
    pc = "done" =>
        /\ \A i, j \in Indices(result) :
               (/\ result[i].isExternal
                /\ result[j].isExternal
                /\ LowerTitle(result[i]) = LowerTitle(result[j])) => i = j
        /\ \A i \in Indices(result) :
               result[i].isExternal =>
                   \E k \in Indices(suggestions) :
                       suggestions[k] = result[i] /\ FirstOfTitle(k)

\* a title was discovered twice, by two queries, the second time with a
\* higher score: the first is returned, the second is not
C22_Witness ==
    /\ pc = "done"
    /\ Len(queries) > 1
    /\ \E i, j \in Indices(suggestions) :
           /\ i < j
           /\ FirstOfTitle(i)
           /\ LowerTitle(suggestions[i]) = LowerTitle(suggestions[j])
           /\ ScoreGreater(suggestions[j].score, suggestions[i].score)
           /\ \E k \in Indices(result) : result[k] = suggestions[i]
           /\ \A k \in Indices(result) : result[k] # suggestions[j]

----------------------------------------------------------------------------
(* C23 *)

\* the de-duplicated, positively scored external set
FirstSuggestions == { suggestions[k] : k \in { i \in Indices(suggestions) : FirstOfTitle(i) } }

\* the external items of the output
KeptExternal == { result[i] : i \in { j \in Indices(result) : result[j].isExternal } }

\* C23: the output holds at most 6 external items, and they are the 6
\* highest-scoring items of the de-duplicated, positively scored external
\* set: no discarded external item has a score strictly greater than a kept
\* one.
C23_SixBestExternal ==
    pc = "done" =>
        /\ ExternalCount(result) <= 6
        /\ KeptExternal \subseteq FirstSuggestions
        /\ Cardinality(KeptExternal) = Smaller(6, Cardinality(FirstSuggestions))
        /\ \A d \in FirstSuggestions \ KeptExternal :
               \A k \in KeptExternal : ~ScoreGreater(d.score, k.score)

\* eight titles were discovered: six are returned, and a discarded one was
\* discovered before a returned one
C23_Witness ==
    /\ pc = "done"
    /\ Cardinality(FirstSuggestions) = 8
    /\ Cardinality(KeptExternal) = 6
    /\ \E i, j \in Indices(suggestions) :
           /\ i < j
           /\ suggestions[i] \in FirstSuggestions \ KeptExternal
           /\ suggestions[j] \in KeptExternal
           /\ ScoreGreater(suggestions[j].score, suggestions[i].score)

----------------------------------------------------------------------------
(* C24 *)

\* the book has a feature key that is a key of the profile
SharesKey(b) == \E kv \in KindValues(b) : ProfileHas(profile, KindPrefix(kv[1]) \o kv[2])

Returned(b) == \E i \in Indices(result) : result[i].book = b

\* C24: every item of the list returned by getRecommendations, local or
\* external, has a score strictly greater than 0 and at least one feature
\* key in common with the profile: a candidate whose score is exactly 0 is
\* never returned.
C24_PositiveScores ==
    /\ \A i \in Indices(result) :
           /\ result[i].score.num > 0
           /\ result[i].score.sq > 0
           /\ SharesKey(result[i].book)
    /\ \A b \in Scorables :
           ~ScorePositive(ScoreBook(b, profile, FALSE).score) => ~Returned(b)

\* a list with a local and an external item was returned while an unread
\* book of the snapshot and an item returned by a query score 0
C24_Witness ==
    /\ pc = "done"
    /\ ExternalCount(result) > 0
    /\ LocalCount(result) > 0
    /\ \E k \in Indices(allBooks) :
           /\ allBooks[k].status = Some("unread")
           /\ ~ScorePositive(ScoreBook(allBooks[k], profile, FALSE).score)
    /\ \E q \in Indices(queries) : \E m \in Indices(queries[q].meta) :
           ~ScorePositive(ScoreBook(queries[q].meta[m], profile, FALSE).score)

----------------------------------------------------------------------------
(* C25 *)

\* the orders in which n queries can be processed
Orders(n) == { f \in [1..n -> 1..n] : \A i, j \in 1..n : f[i] = f[j] => i = j }

\* the log of the queries, processed in the order f
Reordered(qs, f) == IF qs = <<>> THEN <<>> ELSE [i \in 1..Len(qs) |-> qs[f[i]]]

\* the list returned when the answers logged in qs are processed in that order
OutputOf(qs) == Combined(localScored, ExternalBooks(PushedAll(qs, profile, allBooks)))

\* what the answer of the q-th query pushes onto `suggestions`
PushedBy(q) == Pushed(queries[q].meta, profile, allBooks)

\* no two suggestions that come from different queries have the same title or
\* the same score
Unrelated ==
    \A q, r \in Indices(queries) :
        q # r =>
            \A i \in Indices(PushedBy(q)) : \A j \in Indices(PushedBy(r)) :
                /\ LowerTitle(PushedBy(q)[i]) # LowerTitle(PushedBy(r)[j])
                /\ ~ScoreEqual(PushedBy(q)[i].score, PushedBy(r)[j].score)

\* C25 as stated: the list returned does not depend on the order in which the
\* genre queries are processed: for the same snapshot and the same per-genre
\* responses, every processing order yields the same list as the sequential
\* order.
C25_AnyOrder ==
    (pc = "done" /\ queries # <<>>) =>
        \A f \in Orders(Len(queries)) : OutputOf(Reordered(queries, f)) = result

\* C25 amended: every processing order yields the same list as the sequential
\* order when no two positively scored, not owned external items returned by
\* different queries have the same case-insensitive title or the same score.
C25_AnyOrderWhenUnrelated ==
    (pc = "done" /\ queries # <<>> /\ Unrelated) =>
        \A f \in Orders(Len(queries)) : OutputOf(Reordered(queries, f)) = result

\* three queries were made, two of them contributed to the returned list,
\* and the suggestions of different queries are unrelated
C25_Witness ==
    /\ pc = "done"
    /\ Len(queries) = 3
    /\ Unrelated
    /\ \E q, r \in Indices(queries) :
           /\ q # r
           /\ \E i \in Indices(PushedBy(q)) : \E k \in Indices(result) :
                  result[k] = PushedBy(q)[i]
           /\ \E i \in Indices(PushedBy(r)) : \E k \in Indices(result) :
                  result[k] = PushedBy(r)[i]


----------------------------------------------------------------------------
(* C26 *)

\* the entries of a profile as a set: its key-to-weight mapping
Mapping(p) == { p[i] : i \in Indices(p) }

\* the set of labels of a list of genres to query
Labels(gs) == { gs[i] : i \in Indices(gs) }

\* the profile built from the snapshot taken in the order f
ProfileInOrder(f) == BuildProfile(Favorites(Reordered(allBooks, f)))

\* C26 as stated: for two snapshots holding the same items in a different
\* order, buildProfile yields the same key-to-weight mapping and the same set
\* of genre labels is selected for the queries.
C26_OrderIrrelevant ==
    profile # <<>> =>
        \A f \in Orders(Len(allBooks)) :
            /\ Mapping(ProfileInOrder(f)) = Mapping(profile)
            /\ Labels(TopGenres(ProfileInOrder(f))) = Labels(TopGenres(profile))


----------------------------------------------------------------------------
(* C27 *)

\* the score as scoreBook defines it against a profile without entries
ScoredAgainstNothing(b) == ScoreBook(b, <<>>, FALSE)

\* the row b, rated 3 when it has no rating
RatedThree(b) == IF b.rating = None THEN [b EXCEPT !.rating = Some(3)] ELSE b

HasKeyOfKind(p, prefix) == \E i \in Indices(p) : StartsWith(p[i].k, prefix)

\* C27: the profile norm is zero only if the profile is empty, and then
\* scoreBook returns score 0 with no matched feature; a profile built from at
\* least one favorite has only strictly positive weights (a missing rating
\* counting as 3) and holds an author key and a format key, so no candidate is
\* scored against an empty profile inside getRecommendations.
C27_NoEmptyProfile ==
    /\ SumSquares(profile) = 0 => profile = <<>>
    /\ \A b \in Scorables :
           /\ ScoredAgainstNothing(b).score.sq > 0
           /\ ScoredAgainstNothing(b).score.num = 0
           /\ ~ScorePositive(ScoredAgainstNothing(b).score)
           /\ ScoredAgainstNothing(b).matchedFeatures = <<>>
    /\ \A b \in Scorables :
           b.id # None =>
               /\ BuildProfile(<<b>>) = BuildProfile(<<RatedThree(b)>>)
               /\ b.rating = None =>
                      \A i \in Indices(BuildProfile(<<b>>)) : BuildProfile(<<b>>)[i].w > 0
    /\ (pc \in {"query", "done"} /\ \E i \in Indices(allBooks) : Liked(allBooks[i])) =>
           /\ profile # <<>>
           /\ \A i \in Indices(profile) : profile[i].w > 0
           /\ HasKeyOfKind(profile, AuthorPrefix)
           /\ HasKeyOfKind(profile, FormatPrefix)
    /\ (pc = "query" \/ localScored # <<>> \/ suggestions # <<>> \/ result # <<>>) =>
           /\ profile # <<>>
           /\ SumSquares(profile) > 0

\* a run with a favorite has scored candidates of the catalog and items of a
\* query, the snapshot holds an unrated book, and some item scores 0
C27_Witness ==
    /\ pc = "done"
    /\ profile # <<>>
    /\ localScored # <<>>
    /\ suggestions # <<>>
    /\ \E i \in Indices(allBooks) : allBooks[i].rating = None
    /\ \E b \in Scorables : ~ScorePositive(ScoreBook(b, profile, FALSE).score)


----------------------------------------------------------------------------
(* C28 *)

\* some favorite of the snapshot has the format other
SomeFavoriteOfFormatOther ==
    \E i \in Indices(allBooks) :
        Liked(allBooks[i]) /\ allBooks[i].format = Some(<<"o", "t", "h", "e", "r">>)

\* the external item x has neither the ISBN nor the title of a catalog row
NotInCatalog(x) ==
    ~\E k \in Indices(allBooks) :
         \/ Truthy(x.isbn) /\ x.isbn = allBooks[k].isbn
         \/ Truthy(x.title)
                /\ ToLowerCase(Get(x.title)) = ToLowerCase(Get(allBooks[k].title))

\* x was pushed onto `suggestions` with a positive score that counts the
\* weight of format:other, "other" among its matched features
KeptAsOther(x) ==
    \E j \in Indices(suggestions) :
        /\ suggestions[j].book = x
        /\ suggestions[j].isExternal
        /\ ScorePositive(suggestions[j].score)
        /\ suggestions[j].score.num
               >= ProfileGet(profile, FormatPrefix \o <<"o", "t", "h", "e", "r">>)
        /\ \E m \in Indices(suggestions[j].matchedFeatures) :
               suggestions[j].matchedFeatures[m] = <<"o", "t", "h", "e", "r">>

\* x has no genre, tag or author in common with a favorite
SharesNothingLiked(x) ==
    \A kv \in KindValues(x) : kv[1] # "format" => ~LikedCarries(kv)

\* C28: an external item carries no format and is scored under the key
\* format:other; whenever a favorite has the format other, every external item
\* that is not in the catalog gets a score > 0 with the matched feature "other"
\* and is kept, even when it shares no genre, tag or author with a favorite.
C28_ExternalScoredAsOther ==
    \A q \in Indices(queries) : \A m \in Indices(queries[q].meta) :
        /\ queries[q].meta[m].format = None
        /\ (SomeFavoriteOfFormatOther /\ NotInCatalog(queries[q].meta[m])) =>
               KeptAsOther(queries[q].meta[m])

\* a favorite has the format other, and an item of a query that shares no
\* genre, tag or author with any favorite was kept with "other" as its only
\* matched feature
C28_Witness ==
    /\ pc = "done"
    /\ SomeFavoriteOfFormatOther
    /\ \E q \in Indices(queries) : \E m \in Indices(queries[q].meta) :
           /\ SharesNothingLiked(queries[q].meta[m])
           /\ NotInCatalog(queries[q].meta[m])
           /\ KeptAsOther(queries[q].meta[m])
           /\ \E j \in Indices(result) :
                  /\ result[j].book = queries[q].meta[m]
                  /\ result[j].matchedFeatures = << <<"o", "t", "h", "e", "r">> >>


----------------------------------------------------------------------------
(* BooksService.update and BooksService.updateProgress on one row of the   *)
(* books table                                                             *)

FORMAT_M4B == <<"m", "4", "b">>

AUDIO_FORMATS == { FORMAT_MP3, FORMAT_M4B }

\* the largest page count of a row
MaxPages == 2

\* the largest duration of a row, in seconds
MaxSeconds == 1

\* the ids of the rows of the shelves table, in the order of the table
ShelfRows == <<"s1", "s2">>

\* the values of an optional field
Optional(values) == { None } \cup { Some(v) : v \in values }

\* JavaScript truthiness of a nullable number: neither null nor 0
TruthyNumber(o) == ~IsNone(o) /\ Get(o) # 0

\* resolveShelves(shelfIds): [] without ids, else the rows whose id is listed
ResolveShelves(shelfIds) ==
    IF IsNone(shelfIds) \/ Get(shelfIds) = <<>> THEN <<>>
    ELSE SelectSeq(ShelfRows,
                   LAMBDA s : \E i \in 1..Len(Get(shelfIds)) : Get(shelfIds)[i] = s)

\* a dto that holds no field
EmptyDto ==
    [ format               |-> None,
      status               |-> None,
      currentPage          |-> None,
      totalPages           |-> None,
      audioProgressSeconds |-> None,
      audioDurationSeconds |-> None,
      shelfIds             |-> None ]

\* Object.assign(book, rest): every field the dto holds replaces the row's
Assign(book, dto) ==
    [ format               |-> OrElse(dto.format, book.format),
      status               |-> OrElse(dto.status, book.status),
      currentPage          |-> OrElse(dto.currentPage, book.currentPage),
      totalPages           |-> IF IsNone(dto.totalPages) THEN book.totalPages
                               ELSE dto.totalPages,
      audioProgressSeconds |-> OrElse(dto.audioProgressSeconds, book.audioProgressSeconds),
      audioDurationSeconds |-> IF IsNone(dto.audioDurationSeconds)
                               THEN book.audioDurationSeconds
                               ELSE dto.audioDurationSeconds,
      shelves              |-> book.shelves ]

\* variant of Advance: the test of an unread book comes first
AdvanceUnreadFirst(status, progress, total) ==
    LET first == IF progress > 0 /\ status = UNREAD THEN IN_PROGRESS ELSE status
    IN  IF TruthyNumber(total) /\ progress >= Get(total) /\ first = IN_PROGRESS
        THEN FINISHED ELSE first

\* the two `if` on a progress and its total, in the order of the code
Advance(status, progress, total) ==
    LET first == IF TruthyNumber(total) /\ progress >= Get(total) /\ status = IN_PROGRESS
                 THEN FINISHED ELSE status
    IN  IF progress > 0 /\ first = UNREAD THEN IN_PROGRESS ELSE first

\* the automatic status of update: pages for the formats that are not audio,
\* seconds for the audio formats
AutoStatus(book) ==
    IF book.format \in AUDIO_FORMATS
    THEN [book EXCEPT !.status =
              Advance(book.status, book.audioProgressSeconds, book.audioDurationSeconds)]
    ELSE [book EXCEPT !.status =
              Advance(book.status, book.currentPage, book.totalPages)]

\* the row update(id, dto) saves for the row findOne(id) returned
Updated(book, dto) ==
    LET shelved == IF dto.shelfIds # None
                   THEN [book EXCEPT !.shelves = ResolveShelves(dto.shelfIds)]
                   ELSE book
    IN  AutoStatus(Assign(shelved, dto))

\* Math.round(percent / 100 * total), for numbers that are not negative
RoundedShare(percent, total) == (2 * percent * total + 100) \div 200

\* the row of updateProgress before its call of update
Progressed(book, input) ==
    IF book.format \in AUDIO_FORMATS
    THEN IF input.audioProgressSeconds # None
         THEN [book EXCEPT !.audioProgressSeconds = Get(input.audioProgressSeconds)]
         ELSE IF input.progressPercent # None /\ TruthyNumber(book.audioDurationSeconds)
              THEN [book EXCEPT !.audioProgressSeconds =
                        RoundedShare(Get(input.progressPercent),
                                     Get(book.audioDurationSeconds))]
              ELSE book
    ELSE IF input.progressPercent # None /\ TruthyNumber(book.totalPages)
         THEN [book EXCEPT !.currentPage =
                   RoundedShare(Get(input.progressPercent), Get(book.totalPages))]
         ELSE IF input.currentPage # None
              THEN [book EXCEPT !.currentPage = Get(input.currentPage)]
              ELSE book

\* the variables of the recommendation engine
engineVars == <<catalog, firstVars, second>>

\* BooksService.update(id, dto); findOne(id) raises when there is no such row
Update(id, dto) ==
    /\ request' = [op |-> "update", id |-> id, dto |-> dto,
                   raised |-> id \notin DOMAIN library]
    /\ IF id \in DOMAIN library
       THEN /\ found' = Some(library[id])
            /\ library' = [library EXCEPT ![id] = Updated(library[id], dto)]
       ELSE /\ found' = None
            /\ library' = library
    /\ UNCHANGED <<engineVars, shelfCall, shelfCallBefore>>

\* BooksService.updateProgress(id, input), its call of update included
UpdateProgress(id, input) ==
    /\ request' = [op |-> "updateProgress", id |-> id, dto |-> input,
                   raised |-> id \notin DOMAIN library]
    /\ IF id \in DOMAIN library
       THEN LET book == Progressed(library[id], input)
                dto  == [EmptyDto EXCEPT
                            !.currentPage = Some(book.currentPage),
                            !.audioProgressSeconds = Some(book.audioProgressSeconds)]
            IN  /\ found' = Some(library[id])
                /\ library' = [library EXCEPT ![id] = Updated(library[id], dto)]
       ELSE /\ found' = None
            /\ library' = library
    /\ UNCHANGED <<engineVars, shelfCall, shelfCallBefore>>

Statuses == { UNREAD, IN_PROGRESS, FINISHED, ABANDONED }

\* the rows create() can have saved: it stores the fields of its dto as they
\* are, the status included
StoredRows ==
    [ format               : { FORMAT_EPUB, FORMAT_MP3 },
      status               : Statuses,
      currentPage          : 0..MaxPages,
      totalPages           : Optional(1..MaxPages),
      audioProgressSeconds : 0..MaxSeconds,
      audioDurationSeconds : Optional(0..MaxSeconds),
      shelves              : { <<>> } ]

\* the dtos that set a page, a position in seconds, a status, or a status
\* with one of the two
ProgressDtos ==
    { [EmptyDto EXCEPT !.currentPage = page, !.status = status] :
          page \in Optional(0..MaxPages), status \in Optional(Statuses) }
        \cup { [EmptyDto EXCEPT !.audioProgressSeconds = Some(seconds),
                                !.status = status] :
                   seconds \in 0..MaxSeconds, status \in Optional(Statuses) }

\* the dtos that set one other field
OtherDtos ==
    { [EmptyDto EXCEPT !.format = Some(f)] : f \in { FORMAT_EPUB, FORMAT_MP3 } }
        \cup { [EmptyDto EXCEPT !.totalPages = Some(n)] : n \in 1..MaxPages }
        \cup { [EmptyDto EXCEPT !.audioDurationSeconds = Some(n)] : n \in 0..MaxSeconds }
        \cup { [EmptyDto EXCEPT !.shelfIds = Some(ids)] :
                   ids \in { <<>>, <<"s1">>, <<"s9">> } }

Dtos == ProgressDtos \cup OtherDtos

\* the inputs of updateProgress
ProgressInputs ==
    [ currentPage          : Optional(0..MaxPages),
      progressPercent      : Optional({0, 50, 100}),
      audioProgressSeconds : { None } ]
        \cup [ currentPage          : { None },
               progressPercent      : { None },
               audioProgressSeconds : { Some(n) : n \in 0..MaxSeconds } ]

\* the calls of update: every dto for the id of the row, and a call for an id
\* without a row
UpdateCalls == { <<"b1", dto>> : dto \in Dtos } \cup { <<"b9", EmptyDto>> }

\* the calls of updateProgress, likewise
UpdateProgressCalls ==
    { <<"b1", input>> : input \in ProgressInputs }
        \cup { <<"b9", [currentPage |-> Some(0), progressPercent |-> None,
                        audioProgressSeconds |-> None]>> }

EngineIdle ==
    /\ catalog = <<>>
    /\ pc = "start"
    /\ allBooks = <<>>
    /\ profile = <<>>
    /\ localScored = <<>>
    /\ pending = <<>>
    /\ suggestions = <<>>
    /\ queries = <<>>
    /\ thrown = None
    /\ result = <<>>
    /\ second = Idle

InitBooks ==
    /\ EngineIdle
    /\ library \in [ {"b1"} -> StoredRows ]
    /\ found = None
    /\ request = NoCall
    /\ shelfCall = NoCall
    /\ shelfCallBefore = NoCall

NextBooks ==
    \/ \E call \in UpdateCalls : Update(call[1], call[2])
    \/ \E call \in UpdateProgressCalls : UpdateProgress(call[1], call[2])

\* requests to update one book, one at a time
SpecBooks == InitBooks /\ [][NextBooks]_vars


----------------------------------------------------------------------------
(* C29 *)

\* the last call was served and its request did not set the status
StatusLeftToUpdate ==
    /\ request # NoCall
    /\ ~request.raised
    /\ request.op = "update" => request.dto.status = None

\* the row the last call found, and the row it saved
Before == Get(found)

After == library[request.id]

\* the progress of a row and its total: seconds for mp3 and m4b, else pages
ProgressOf(row) ==
    IF row.format \in { <<"m", "p", "3">>, <<"m", "4", "b">> }
    THEN row.audioProgressSeconds ELSE row.currentPage

TotalOf(row) ==
    IF row.format \in { <<"m", "p", "3">>, <<"m", "4", "b">> }
    THEN row.audioDurationSeconds ELSE row.totalPages

\* the row has a total and its progress is not below it
ReachesTotal(row) == TotalOf(row) # None /\ ProgressOf(row) >= Get(TotalOf(row))

\* the same, for a total above 0
ReachesPositiveTotal(row) == ReachesTotal(row) /\ Get(TotalOf(row)) > 0

\* no step, or one step of unread -> in_progress -> finished
AtMostOneStep(from, to) ==
    \/ to = from
    \/ from = "unread" /\ to = "in_progress"
    \/ from = "in_progress" /\ to = "finished"

\* C29 as stated: when the request does not set the status, update advances
\* the status by at most one step of unread -> in_progress -> finished; an
\* in_progress book whose progress reaches the total becomes finished, an
\* unread book whose progress is set to the total ends in_progress, and
\* finished and abandoned books keep their status.
C29_OneStep ==
    StatusLeftToUpdate =>
        /\ AtMostOneStep(Before.status, After.status)
        /\ (Before.status = "in_progress" /\ ReachesTotal(After)) =>
               After.status = "finished"
        /\ (Before.status = "unread" /\ ReachesTotal(After)) =>
               After.status = "in_progress"
        /\ Before.status \in {"finished", "abandoned"} => After.status = Before.status

\* C29 amended: the same, for a total that is set and greater than 0; with a
\* total of 0 (or none) the status of an in_progress book is kept, and an
\* unread book stays unread while its progress is 0.
C29_OneStepPositiveTotal ==
    StatusLeftToUpdate =>
        /\ AtMostOneStep(Before.status, After.status)
        /\ (Before.status = "in_progress" /\ ReachesPositiveTotal(After)) =>
               After.status = "finished"
        /\ (Before.status = "unread" /\ ReachesPositiveTotal(After)) =>
               After.status = "in_progress"
        /\ (Before.status = "in_progress" /\ ~ReachesPositiveTotal(After)) =>
               After.status = "in_progress"
        /\ (Before.status = "unread" /\ ProgressOf(After) = 0) =>
               After.status = "unread"
        /\ Before.status \in {"finished", "abandoned"} => After.status = Before.status

\* an update without any field found the book in_progress at its last page,
\* as the update of an unread book leaves it, and saved it finished
C29_Witness ==
    /\ StatusLeftToUpdate
    /\ request.op = "update"
    /\ request.dto = EmptyDto
    /\ Before.status = "in_progress"
    /\ Before.format = <<"e", "p", "u", "b">>
    /\ Before.totalPages = Some(2)
    /\ Before.currentPage = 2
    /\ After.status = "finished"


----------------------------------------------------------------------------
(* ShelvesService.addBook and ShelvesService.removeBook                    *)

\* ShelvesService.findOne(id) finds a row
ShelfExists(shelfId) == \E i \in 1..Len(ShelfRows) : ShelfRows[i] = shelfId

\* variant of AlreadyAdded: the shelves of the book are not looked at
AlreadyAddedNever(book, shelfId) == FALSE

\* (book.shelves ?? []).some((s) => s.id === shelfId)
AlreadyAdded(book, shelfId) ==
    \E i \in 1..Len(book.shelves) : book.shelves[i] = shelfId

\* (book.shelves ?? []).filter((s) => s.id !== shelfId)
WithoutShelf(book, shelfId) ==
    [book EXCEPT !.shelves = SelectSeq(@, LAMBDA s : s # shelfId)]

\* ShelvesService.addBook(shelfId, bookId): NotFoundException without the
\* shelf or without the book, before anything is saved
AddBook(shelfId, bookId) ==
    LET missing == ~ShelfExists(shelfId) \/ bookId \notin DOMAIN library
    IN  /\ shelfCall' = [op |-> "addBook", shelfId |-> shelfId, bookId |-> bookId,
                         raised |-> missing]
        /\ shelfCallBefore' = shelfCall
        /\ library' = IF missing \/ AlreadyAdded(library[bookId], shelfId)
                      THEN library
                      ELSE [library EXCEPT ![bookId].shelves = Append(@, shelfId)]
        /\ UNCHANGED <<engineVars, found, request>>

\* ShelvesService.removeBook(shelfId, bookId): NotFoundException without the
\* book; without the shelf the book is saved and the closing findOne raises
RemoveBook(shelfId, bookId) ==
    /\ shelfCall' = [op |-> "removeBook", shelfId |-> shelfId, bookId |-> bookId,
                     raised |-> bookId \notin DOMAIN library \/ ~ShelfExists(shelfId)]
    /\ shelfCallBefore' = shelfCall
    /\ library' = IF bookId \notin DOMAIN library
                  THEN library
                  ELSE [library EXCEPT ![bookId] = WithoutShelf(@, shelfId)]
    /\ UNCHANGED <<engineVars, found, request>>

\* a row as create() saves it for a dto with the required fields only, on
\* the shelves given
ShelvedRow(shelves) ==
    [ format               |-> FORMAT_OTHER,
      status               |-> UNREAD,
      currentPage          |-> 0,
      totalPages           |-> None,
      audioProgressSeconds |-> 0,
      audioDurationSeconds |-> None,
      shelves              |-> shelves ]

\* the ids of the two shelves and of the two books, and an id without a row
ShelfIds == { "s1", "s2", "s9" }

ShelfBookIds == { "b1", "b2", "b9" }

InitShelves ==
    /\ EngineIdle
    /\ library \in [ {"b1", "b2"} -> { ShelvedRow(<<>>), ShelvedRow(<<"s2">>) } ]
    /\ found = None
    /\ request = NoCall
    /\ shelfCall = NoCall
    /\ shelfCallBefore = NoCall

NextShelves ==
    \/ \E s \in ShelfIds : \E b \in ShelfBookIds : AddBook(s, b)
    \/ \E s \in ShelfIds : \E b \in ShelfBookIds : RemoveBook(s, b)

\* requests to put books on shelves and to take them off, one at a time
SpecShelves == InitShelves /\ [][NextShelves]_vars

----------------------------------------------------------------------------
(* C30 *)

\* how many times the book b is on the shelf s in the table lib
TimesIn(lib, b, s) ==
    Cardinality({ i \in 1..Len(lib[b].shelves) : lib[b].shelves[i] = s })

TimesOnShelf(b, s) == TimesIn(library, b, s)

\* the call is made for a shelf and a book that exist
ForExisting(call) ==
    call.shelfId \in {"s1", "s2"} /\ call.bookId \in DOMAIN library

\* C30: for an existing shelf and book, addBook leaves the book on that shelf
\* exactly once and raises no error, whether the book was on the shelf or
\* not, and changes no other membership; removeBook of a book that is not on
\* the shelf raises no error and leaves every membership unchanged.
C30_Idempotent ==
    [][ /\ (shelfCall'.op = "addBook" /\ ForExisting(shelfCall')) =>
               /\ ~shelfCall'.raised
               /\ TimesIn(library', shelfCall'.bookId, shelfCall'.shelfId) = 1
               /\ \A b \in DOMAIN library : \A s \in {"s1", "s2"} :
                      <<b, s>> # <<shelfCall'.bookId, shelfCall'.shelfId>> =>
                          TimesIn(library', b, s) = TimesIn(library, b, s)
               /\ TimesIn(library, shelfCall'.bookId, shelfCall'.shelfId) = 1 =>
                      library' = library
        /\ (shelfCall'.op = "removeBook" /\ ForExisting(shelfCall')
                /\ TimesIn(library, shelfCall'.bookId, shelfCall'.shelfId) = 0) =>
               /\ ~shelfCall'.raised
               /\ library' = library
      ]_vars

\* the same book was added to the same shelf twice in a row without an error
\* and is on it once, next to another shelf it was on before
C30_Witness ==
    /\ shelfCall.op = "addBook"
    /\ shelfCallBefore = shelfCall
    /\ ForExisting(shelfCall)
    /\ ~shelfCall.raised
    /\ library[shelfCall.bookId].shelves = <<"s2", "s1">>
    /\ TimesOnShelf(shelfCall.bookId, shelfCall.shelfId) = 1

============================================================================
